---- MODULE Spec2Model ----
(***************************************************************************)
(* A model of paxml/eval_lib.py: the split runners                         *)
(* (run_eval_loop_over_test_splits, decode_once_pmap_model,                *)
(* decode_once_spmd_model) run by several host processes, and the          *)
(* checkpoint polling loop (_common_eval_or_decode_loop with the           *)
(* _EvalCheckpointer variants).                                            *)
(***************************************************************************)
EXTENDS Integers, Sequences, FiniteSets, TLC

\* ---------------------------------------------------------------- bounds
NumHosts == 2
NumSplits == 2
MaxBatches == 1
MaxStep == 2
MaxIters == 1
NumKeys == 2
MaxCount == 1
MaxMetric == 5
MaxOffers == 4
MaxFinds == 2
MaxScoredBatches == 2
MaxBatchLen == 2
MaxPolls == 2

Hosts == 0 .. (NumHosts - 1)
Splits == 1 .. NumSplits
\* num_steps entries: -1 (reset_for_eval) or eval_loop_num_batches >= 0; the
\* largest budget asks for one batch more than any iterator yields.
Budgets == (-1) .. (MaxBatches + 1)
Variants == {"eval", "pmap", "spmd"}
\* Optional[int]: None, or a checkpoint step.
None == -1
Steps == 0 .. MaxStep
OptSteps == Steps \cup {None}
\* What a file {mode}_out/{split}/{mode}_out_{step}_shard_0 can be: missing,
\* unreadable, or a file holding n records.
Absent == [state |-> "absent", n |-> 0]
Corrupt == [state |-> "corrupt", n |-> 0]
Written(n) == [state |-> "ok", n |-> n]

\* The entry of a metrics list: None, or a dict built from `stored` batches.
NoneMetrics == [isNone |-> TRUE, stored |-> 0]
MetricsDict(n) == [isNone |-> FALSE, stored |-> n]

\* ------------------------------------------------------------- the state
VARIABLES
  variant,          \* which split runner the processes execute
  only_aggregate,   \* flags.FLAGS.pax_only_aggregate_summaries
  disk,             \* disk[split]: the split's output file of the mode and
                    \* the checkpoint step the pass evaluates
  num_split_steps,  \* the budget of the split being processed
  avail,            \* batches each host's iterator yields before exhaustion
  examples,         \* per-example outputs each batch yields (0 or 1)
  pc,               \* pc[h]: where host h is in the runner
  split,            \* split[h]: index of the split host h is at
  step_num,         \* step_num[h]
  pos,              \* pos[h]: cursor of host h's iterator of the split
  success,          \* success[h]: the array handed to broadcast_one_to_all
  out,              \* out[h]: what broadcast_one_to_all returned to h
  ngets,            \* get_next / get_next_padded calls of h in the split
  ncalls,           \* step-function calls of h in the split
  nresets,          \* reset() calls of h in the split
  nwrites,          \* output-file writes of h in the split
  nstores,          \* decode_metrics.store / metrics appends of h in the split
  nsyncs,           \* per-batch sync_global_devices entered by h in the split
  records,          \* flat_scoring_outputs / processed_decodes of h
  metrics_list,     \* eval_metrics_list / decode_metrics_list of h
  num_steps_list,   \* num_eval_steps / num_decode_steps of h
  completed,        \* completed[split]: "now" once host 0 has written the
                    \* split's outputs in this run, "before" if it did so in
                    \* an earlier run for this step, "no" otherwise
  nscores,          \* seqio_input.process_outputs calls of h in the split
  scored,           \* the arguments and the result of the last such call of h
  scoring_metrics_list, \* eval_scoring_metrics_list / seqio_metrics_list of h
  can_load          \* what _can_load_written_outputs returned to h for each
                    \* split it has checked in this run

rvars == <<variant, only_aggregate, disk, num_split_steps, avail,
           examples, pc, split, step_num, pos, success, out, ngets, ncalls,
           nresets, nwrites, nstores, nsyncs, records, metrics_list,
           num_steps_list, completed, nscores, scored,
           scoring_metrics_list, can_load>>

\* The state of the continuous loop (_common_eval_or_decode_loop), one copy of
\* the locals per host process.
VARIABLES
  ckptr,                   \* "spmd": _SpmdEvalCheckpointer, "pmap": _PmapEvalCheckpointer
  continuous_decode,       \* the argument of the same name
  latest,                  \* what checkpoints.retrieve_latest_checkpoint_step
                           \* answers at this moment
  lpc,                     \* lpc[h]: where host h is in the loop
  last_checkpoint_step,    \* last_checkpoint_step of host h
  new_checkpoint_step,     \* new_checkpoint_step of host h
  partitioned_train_state, \* "none" before the first load, "held" (restored),
                           \* "fresh" (initialized), "released", or "missing"
                           \* (restore gave None)
  iter,                    \* passes host h has run
  nrestores,               \* restore_checkpoint calls of load_checkpoint_for_step
                           \* host h has completed
  restore_error,           \* restore_checkpoint has raised on host h
  input_p,                 \* the argument of the same name is not empty:
                           \* there are decode inputs
  gc_frozen,               \* gc.freeze() is in force in the process of host h
  live,                    \* ModelStates whose device memory host h holds
  state_step,              \* the step of partitioned_train_state of host h,
                           \* None if it holds no restored state
  passes,                  \* the passes of the current iteration of host h,
                           \* each with the state it was called on
  early_stop               \* the last should_early_stop call of host h: its
                           \* is_last_ckpt argument and what it returned

\* Calls of _merge_clu_metrics on three metric dicts.
VARIABLES
  margs,                   \* the dicts a, b and c the calls are made on
  mres                     \* the outcome of each call made so far, by name

lvars == <<ckptr, continuous_decode, latest, lpc, last_checkpoint_step,
           new_checkpoint_step, partitioned_train_state, iter, nrestores,
           restore_error, input_p, gc_frozen, live, state_step, passes,
           early_stop>>

\* Calls of _maybe_update_tracked_metric for one tracked metric of one data
\* partition, over one tracker directory.
VARIABLES
  decode_layout,           \* the decode runner of the job: "pmap" for
                           \* decode_once_pmap_model, "spmd" for
                           \* decode_once_spmd_model
  nwarns,                  \* the 'tracking is not implemented' warnings the
                           \* SPMD runner has logged so far
  min_or_max,              \* task_p.track_decoder_metric_min_or_max: "MIN",
                           \* "MAX", or "NONE" when it is not set
  enable_checkpoint_saving, \* the argument of the same name
  status,                  \* the value the tracker directory holds, or None
  offered,                 \* the m_value of each call made on host 0 so far
  updates,                 \* the value of each tracker.update call so far
  idle_calls,              \* calls made so far on hosts other than host 0
  nsaves,                  \* checkpoints.save_checkpoint calls so far
  saved,                   \* for each of them, the host that made it and the
                           \* value the tracker held when it was made
  nfinds,                  \* _find_and_maybe_update_tracked_metric calls so far
  key_missing,             \* the tracked metric key was in no dict of
                           \* decode_metrics_list in the last of them
  find_raised              \* one of them has raised ValueError

\* The per-example outputs of one eval split of one host.
VARIABLES
  per_example_scores,      \* the list of the same name: one entry per batch
  flat_scoring_outputs,    \* the list of the same name
  fpc                      \* "batches" in the batch loop, "flat" after the
                           \* flattening loops

\* One process from the entry of decode_pmap_model or decode_spmd_model to its
\* first pass.
VARIABLES
  decode_continuous,       \* the argument continuous_decode of the decode entry
  start_step,              \* train.decode_start_after_n_steps
  store_latest,            \* the latest step of the checkpoint directory
  cur_step,                \* the local of _wait_until_step
  reports,                 \* what retrieve_latest_checkpoint_step has answered
                           \* the process, in order
  gate_pc                  \* "entry", "poll" in the loop of _wait_until_step,
                           \* "load" before get_model_states, "loaded" after
                           \* it, "pass" once the first pass has started

mvars == <<margs, mres>>

gvars == <<decode_continuous, start_step, store_latest, cur_step, reports,
           gate_pc>>

fvars == <<per_example_scores, flat_scoring_outputs, fpc>>

ovars == <<fvars, gvars>>

tvars == <<decode_layout, nwarns, min_or_max, enable_checkpoint_saving, status, offered, updates,
           idle_calls, nsaves, saved, nfinds, key_missing, find_raised>>

pvars == <<mvars, tvars>>

vars == <<rvars, lvars, pvars, ovars>>

\* ------------------------------------------------------ pure definitions

\* io_utils.load_outputs: raises unless the file of (split, mode, step) can be
\* read, and returns its records otherwise.
LoadRaises(file) == file.state # "ok"

\* A skip check that takes a load that raised for a load of one record.
LoadedCountOnError(h, file) ==
  IF h = 0 THEN (IF LoadRaises(file) THEN 1 ELSE file.n) ELSE 0

\* success[0] after the try block of _can_load_written_outputs on host 0;
\* the other hosts leave the array at 0.
LoadedCount(h, file) == IF h = 0 /\ ~LoadRaises(file) THEN file.n ELSE 0

\* return out[0] > 0
CanLoad(o) == o > 0

\* A loop condition that admits one iteration too many.
LoopCondInclusive(n, s) == n < 0 \/ s <= n

\* while num_split_steps < 0 or step_num < num_split_steps
LoopCond(n, s) == n < 0 \/ s < n

\* An eval runner that never re-raises the exhaustion.
RaisesNever(v, n) == FALSE

\* An eval runner that re-raises the exhaustion for every budget but 0.
RaisesUnlessZero(v, n) == v = "eval" /\ n # 0

\* except OutOfRangeError: `if num_split_steps > 0: raise` (eval only; the
\* decode runners reset and break whatever the budget is).
RaisesOnExhaustion(v, n) == v = "eval" /\ n > 0

\* A skip check without the collective: every host keeps its own array.
NoBroadcast(s) == s

\* multihost_utils.broadcast_one_to_all(success): what each host receives
\* when the hosts called it with the arrays s.
BroadcastResult(s) == [h \in Hosts |-> s[0]]

\* A write that every host makes, whatever its process index.
WritesOutputOnEveryHost(v, h, flag) ==
  IF v = "spmd" THEN TRUE ELSE ~flag

\* A runner whose host 0 writes no output file.
WritesNoOutput(v, h, flag) == FALSE

\* The condition under which host h writes the split's output file.
WritesOutput(v, h, flag) ==
  IF v = "spmd" THEN h = 0 ELSE h = 0 /\ ~flag

\* An SPMD decode runner whose other hosts `continue` before the barrier.
EntersBarrierOnHostZero(v, h) == v = "spmd" /\ h = 0

\* py_utils.sync_global_devices after the decode step of every batch: the
\* SPMD decode runner calls it on every host, before `if jax.process_index()
\* != 0: continue`; the eval and the pmap decode runner have no such call.
EntersBarrier(v, h) == v = "spmd"

\* Whether host h folds the batch into its records and weighted scalars.
ProcessesBatch(v, h) ==
  CASE v = "eval" -> TRUE
    [] v = "pmap" -> h = 0
    [] v = "spmd" -> h = 0

\* Whether host h stores the batch's weighted scalars in decode_metrics.
StoresMetrics(v, h) ==
  CASE v = "eval" -> TRUE
    [] v = "pmap" -> TRUE
    [] v = "spmd" -> h = 0

\* num_eval_steps.append(step_num) / num_decode_steps.append(step_num)
StepsPerformed(s) == s

\* A result list that grows at the front.
PrependEntry(list, e) == <<e>> \o list

\* eval_metrics_list.append(e), and the same for the other result lists.
AppendEntry(list, e) == Append(list, e)

\* The inputs registered as needing scoring: the first split is, the others
\* are not.
RegisteredSplits == {1}

\* A runner that scores every split.
ScoresEverySplit(sp) == TRUE

\* seqio_input.should_process_outputs(model_inputs[split])
ShouldProcessOutputs(sp) == sp \in RegisteredSplits

\* No process_outputs call has been made in the split.
NotScored == [called |-> FALSE, records |-> 0, dir |-> 0, ret |-> NoneMetrics]

\* seqio_input.process_outputs(input, records, writer, type, step, output_dir):
\* the scoring metrics of the records, here the number of records scored.
ProcessOutputs(recs, output_dir) == MetricsDict(recs)

\* eval_scoring_metrics = None; `if should_process_outputs(input):
\* eval_scoring_metrics = process_outputs(...)`
ScoringMetrics(registered, recs, output_dir) ==
  IF registered THEN ProcessOutputs(recs, output_dir) ELSE NoneMetrics

\* Metrics = Dict[str, clu_metrics.Metric]: a dict from some metric names to
\* metric values.
Keys == 1 .. NumKeys
Vals == 0 .. MaxCount
EmptyMetrics == [k \in {} |-> 0]
MetricMaps == UNION {[K -> Vals] : K \in SUBSET Keys}
NoCalls == [n \in {} |-> 0]

\* metrics[key].merge(updated_metrics[key]): clu's Metric.merge, an
\* associative and commutative combination of two values of a metric; here
\* the sum of two counts, which wraps at the largest count.
MergeValue(x, y) == (x + y) % (MaxCount + 1)

\* A merge without the key check, over the keys the two dicts share.
MergeCluMetricsNoKeyCheck(metrics, updated_metrics) ==
  IF DOMAIN metrics # {}
  THEN LET merged ==
             [key \in DOMAIN metrics |->
                IF key \in DOMAIN updated_metrics
                THEN MergeValue(metrics[key], updated_metrics[key])
                ELSE metrics[key]]
       IN  [raised |-> FALSE, ret |-> merged, metrics |-> merged]
  ELSE [raised |-> FALSE, ret |-> updated_metrics, metrics |-> metrics]

\* A merge that overwrites the entries of metrics instead of merging them.
MergeCluMetricsOverwrite(metrics, updated_metrics) ==
  IF DOMAIN metrics # {}
  THEN IF DOMAIN metrics # DOMAIN updated_metrics
       THEN [raised |-> TRUE, ret |-> EmptyMetrics, metrics |-> metrics]
       ELSE [raised |-> FALSE, ret |-> updated_metrics,
             metrics |-> updated_metrics]
  ELSE [raised |-> FALSE, ret |-> updated_metrics, metrics |-> metrics]

\* _merge_clu_metrics(metrics, updated_metrics): whether it raised the
\* ValueError, the dict it returned (none when it raised), and the content of
\* the dict passed as metrics after the call.  A non-empty metrics is updated
\* in place and returned; an empty one is left alone and updated_metrics is
\* returned.
MergeCluMetrics(metrics, updated_metrics) ==
  IF DOMAIN metrics # {}
  THEN IF DOMAIN metrics # DOMAIN updated_metrics
       THEN [raised |-> TRUE, ret |-> EmptyMetrics, metrics |-> metrics]
       ELSE LET merged ==
                  [key \in DOMAIN metrics |->
                     MergeValue(metrics[key], updated_metrics[key])]
            IN  [raised |-> FALSE, ret |-> merged, metrics |-> merged]
  ELSE [raised |-> FALSE, ret |-> updated_metrics, metrics |-> metrics]

\* sys.float_info.max, the largest float: above every metric value.
FloatMax == MaxMetric + 1
MetricValues == 0 .. MaxMetric

\* Initial values with the two modes swapped.
InitialValueSwapped(mode) == IF mode = "MAX" THEN FloatMax ELSE -FloatMax

\* initial_value = sys.float_info.max, or -sys.float_info.max for MAX
InitialValue(mode) == IF mode = "MAX" THEN -FloatMax ELSE FloatMax

\* trk_utils.MetricTracker(...).metric_value: the value of the status file of
\* the tracker directory, or initial_metric_value when there is none yet.
TrackerMetricValue(st, initial_metric_value) ==
  IF st = None THEN initial_metric_value ELSE st

\* An update condition that also takes a value equal to the stored one.
ImprovesOrEquals(mode, m_value, best) ==
  \/ mode = "MIN" /\ m_value <= best
  \/ mode = "MAX" /\ m_value >= best

\* The condition of tracker.update: (MIN and m_value < tracker.metric_value)
\* or (MAX and m_value > tracker.metric_value)
Improves(mode, m_value, best) ==
  \/ mode = "MIN" /\ m_value < best
  \/ mode = "MAX" /\ m_value > best

\* What a result dict of a split holds under the tracked metric key: None
\* when the key is not in the dict, else a value (0.0, a value next to it or
\* the largest one).
TrackedEntries == {None, 0, 1, MaxMetric}

\* decode_metrics_list as _find_and_maybe_update_tracked_metric looks at it:
\* the entries of merged_decode_metrics and merged_processed_decode_metrics.
DecodeMetricsLists == [1 .. 2 -> TrackedEntries]
NoDecodeMetrics == [i \in 1 .. 2 |-> None]

\* m_value after `for d in decode_metrics_list: if tracked_metric in d:
\* m_value = d[tracked_metric]; break`: the entry of the first dict that has
\* the key, None when no dict has it.
FoundValue(decode_metrics_list) ==
  IF \A i \in DOMAIN decode_metrics_list : decode_metrics_list[i] = None
  THEN None
  ELSE decode_metrics_list[
         CHOOSE i \in DOMAIN decode_metrics_list :
           /\ decode_metrics_list[i] # None
           /\ \A j \in DOMAIN decode_metrics_list :
                j < i => decode_metrics_list[j] = None]

\* A caller that hands on whatever the search left in m_value.
IsTrackedAlways(v) == TRUE

\* `if m_value:` is false for None and for 0.0
IsTracked(v) == v # None /\ v # 0

\* should_early_stop has not been called; a call of it with is_last_ckpt
\* that returned ret.
NotCalled == [called |-> FALSE, is_last_ckpt |-> FALSE, ret |-> FALSE]
EarlyStopCall(is_last_ckpt, ret) ==
  [called |-> TRUE, is_last_ckpt |-> is_last_ckpt, ret |-> ret]

\* No call of _merge_clu_metrics and of _maybe_update_tracked_metric is
\* being looked at.
MergeAtRest ==
  /\ margs = [a |-> EmptyMetrics, b |-> EmptyMetrics, c |-> EmptyMetrics]
  /\ mres = NoCalls

\* No split is being flattened.
FlattenAtRest ==
  /\ per_example_scores = <<>>
  /\ flat_scoring_outputs = <<>>
  /\ fpc = "batches"

GateAtRest ==
  /\ decode_continuous = FALSE
  /\ start_step = None
  /\ store_latest = None
  /\ cur_step = None
  /\ reports = <<>>
  /\ gate_pc = "entry"

OthersAtRest == FlattenAtRest /\ GateAtRest

TrackerAtRest ==
  /\ decode_layout = "pmap"
  /\ nwarns = 0
  /\ min_or_max = "MIN"
  /\ enable_checkpoint_saving = TRUE
  /\ status = None
  /\ offered = <<>>
  /\ updates = <<>>
  /\ idle_calls = 0
  /\ nsaves = 0
  /\ saved = <<>>
  /\ nfinds = 0
  /\ key_missing = FALSE
  /\ find_raised = FALSE

\* ------------------------------------------------------------------ Init
\* The first run starts on a directory without output files, or with an
\* unreadable file left for the first split.
Init ==
  /\ variant \in Variants
  /\ only_aggregate \in BOOLEAN
  /\ disk \in {[sp \in Splits |-> Absent],
               [sp \in Splits |-> IF sp = 1 THEN Corrupt ELSE Absent]}
  /\ num_split_steps = 0
  /\ avail = 0
  /\ examples = 0
  /\ pc = [h \in Hosts |-> "check"]
  /\ split = [h \in Hosts |-> 1]
  /\ step_num = [h \in Hosts |-> 0]
  /\ pos = [h \in Hosts |-> 0]
  /\ success = [h \in Hosts |-> 0]
  /\ out = [h \in Hosts |-> 0]
  /\ ngets = [h \in Hosts |-> 0]
  /\ ncalls = [h \in Hosts |-> 0]
  /\ nresets = [h \in Hosts |-> 0]
  /\ nwrites = [h \in Hosts |-> 0]
  /\ nstores = [h \in Hosts |-> 0]
  /\ nsyncs = [h \in Hosts |-> 0]
  /\ records = [h \in Hosts |-> 0]
  /\ metrics_list = [h \in Hosts |-> <<>>]
  /\ num_steps_list = [h \in Hosts |-> <<>>]
  /\ completed = [sp \in Splits |-> "no"]
  /\ nscores = [h \in Hosts |-> 0]
  /\ scored = [h \in Hosts |-> NotScored]
  /\ scoring_metrics_list = [h \in Hosts |-> <<>>]
  /\ can_load = [h \in Hosts |-> <<>>]
  /\ ckptr = "pmap"
  /\ continuous_decode = FALSE
  /\ latest = None
  /\ lpc = [h \in Hosts |-> "start"]
  /\ last_checkpoint_step = [h \in Hosts |-> None]
  /\ new_checkpoint_step = [h \in Hosts |-> None]
  /\ partitioned_train_state = [h \in Hosts |-> "held"]
  /\ iter = [h \in Hosts |-> 0]
  /\ nrestores = [h \in Hosts |-> 0]
  /\ restore_error = [h \in Hosts |-> FALSE]
  /\ input_p = FALSE
  /\ gc_frozen = [h \in Hosts |-> FALSE]
  /\ live = [h \in Hosts |-> 1]
  /\ state_step = [h \in Hosts |-> None]
  /\ passes = [h \in Hosts |-> <<>>]
  /\ early_stop = [h \in Hosts |-> NotCalled]
  /\ MergeAtRest
  /\ TrackerAtRest
  /\ OthersAtRest

\* --------------------------------------------------- split runner actions
Bump(f, h, d) == [f EXCEPT ![h] = @ + d]

\* Host h waits in a collective, or has left the runner.
Blocked(h) == pc[h] \in {"bcast", "sync", "done", "raised"}

\* The hosts other than host 0 run the same code on local state only and meet
\* the others in the collectives alone, so their local steps commute: between
\* two collectives they are taken in index order.  Host 0 is never held back.
Turn(h) == \A g \in Hosts : (0 < g /\ g < h) => Blocked(g)

\* Top of `for split, num_split_steps in enumerate(...)`: host h enters
\* _can_load_written_outputs; host 0 tries to load the outputs of the step.
EnterSkipCheck(h) ==
  /\ Turn(h)
  /\ pc[h] = "check"
  /\ split[h] <= NumSplits
  /\ success' = [success EXCEPT
                   ![h] = LoadedCount(h, disk[split[h]])]
  /\ pc' = [pc EXCEPT ![h] = "bcast"]
  /\ UNCHANGED <<variant, only_aggregate, disk, num_split_steps,
                 avail, examples, split, step_num, pos, out, ngets, ncalls,
                 nresets, nwrites, nstores, nsyncs, records, metrics_list,
                 num_steps_list, completed>>
  /\ UNCHANGED <<nscores, scored, scoring_metrics_list, can_load>>
  /\ UNCHANGED <<lvars, pvars, ovars>>

\* multihost_utils.broadcast_one_to_all(success): a collective; every host
\* receives host 0's array.  The split's budget and data are the next
\* elements of the runner's input lists.
BroadcastOneToAll ==
  /\ \A h \in Hosts : pc[h] = "bcast"
  /\ out' = BroadcastResult(success)
  /\ success' = [h \in Hosts |-> 0]
  /\ pc' = [h \in Hosts |-> "decide"]
  /\ num_split_steps' \in Budgets
  /\ avail' \in 0 .. MaxBatches
  /\ examples' \in {0, 1}
  /\ pos' = [h \in Hosts |-> 0]
  /\ ngets' = [h \in Hosts |-> 0]
  /\ ncalls' = [h \in Hosts |-> 0]
  /\ nresets' = [h \in Hosts |-> 0]
  /\ nwrites' = [h \in Hosts |-> 0]
  /\ nsyncs' = [h \in Hosts |-> 0]
  /\ nscores' = [h \in Hosts |-> 0]
  /\ scored' = [h \in Hosts |-> NotScored]
  /\ can_load' = [h \in Hosts |->
                    Append(can_load[h], CanLoad(BroadcastResult(success)[h]))]
  /\ UNCHANGED <<variant, only_aggregate, disk, split, step_num,
                 nstores, records, metrics_list, num_steps_list, completed>>
  /\ UNCHANGED scoring_metrics_list
  /\ UNCHANGED <<lvars, pvars, ovars>>

\* A skip branch without its `continue`: None and 0 are appended and the
\* split is processed all the same.
SkipFallsThrough(h) ==
  /\ Turn(h)
  /\ pc[h] = "decide"
  /\ CanLoad(out[h])
  /\ metrics_list' = [metrics_list EXCEPT
                        ![h] = AppendEntry(@, NoneMetrics)]
  /\ scoring_metrics_list' = [scoring_metrics_list EXCEPT
                                ![h] = AppendEntry(@, NoneMetrics)]
  /\ num_steps_list' = [num_steps_list EXCEPT ![h] = AppendEntry(@, 0)]
  /\ step_num' = [step_num EXCEPT ![h] = 0]
  /\ records' = [records EXCEPT ![h] = 0]
  /\ nstores' = [nstores EXCEPT ![h] = 0]
  /\ pc' = [pc EXCEPT ![h] = "loop"]
  /\ UNCHANGED <<variant, only_aggregate, disk, num_split_steps,
                 avail, examples, split, pos, success, out, ngets, ncalls,
                 nresets, nwrites, nsyncs, completed>>
  /\ UNCHANGED <<nscores, scored, can_load>>
  /\ UNCHANGED <<lvars, pvars, ovars>>

\* The skip branch: append None and 0, `continue`.
Skip(h) ==
  /\ Turn(h)
  /\ pc[h] = "decide"
  /\ CanLoad(out[h])
  /\ metrics_list' = [metrics_list EXCEPT
                        ![h] = AppendEntry(@, NoneMetrics)]
  /\ scoring_metrics_list' = [scoring_metrics_list EXCEPT
                                ![h] = AppendEntry(@, NoneMetrics)]
  /\ num_steps_list' = [num_steps_list EXCEPT ![h] = AppendEntry(@, 0)]
  /\ split' = Bump(split, h, 1)
  /\ pc' = [pc EXCEPT ![h] = "check"]
  /\ UNCHANGED <<variant, only_aggregate, disk, num_split_steps,
                 avail, examples, step_num, pos, success, out, ngets, ncalls,
                 nresets, nwrites, nstores, nsyncs, records, completed>>
  /\ UNCHANGED <<nscores, scored, can_load>>
  /\ UNCHANGED <<lvars, pvars, ovars>>

\* Not skipped: step_num = 0, fresh metrics and output lists.
StartSplit(h) ==
  /\ Turn(h)
  /\ pc[h] = "decide"
  /\ ~CanLoad(out[h])
  /\ step_num' = [step_num EXCEPT ![h] = 0]
  /\ records' = [records EXCEPT ![h] = 0]
  /\ nstores' = [nstores EXCEPT ![h] = 0]
  /\ pc' = [pc EXCEPT ![h] = "loop"]
  /\ UNCHANGED <<variant, only_aggregate, disk, num_split_steps,
                 avail, examples, split, pos, success, out, ngets, ncalls,
                 nresets, nwrites, nsyncs, metrics_list, num_steps_list, completed>>
  /\ UNCHANGED <<nscores, scored, scoring_metrics_list, can_load>>
  /\ UNCHANGED <<lvars, pvars, ovars>>

\* What host h accumulates from one batch after the step function.
Accumulate(h) ==
  /\ records' = [records EXCEPT
                   ![h] = IF ProcessesBatch(variant, h)
                          THEN @ + examples ELSE @]
  /\ nstores' = [nstores EXCEPT
                   ![h] = IF StoresMetrics(variant, h) THEN @ + 1 ELSE @]

\* One iteration with a batch: step_num += 1, get_next returns, the step
\* function runs; eval and pmap decode accumulate, SPMD decode goes to the
\* per-batch sync_global_devices.
GetNextBatch(h) ==
  /\ Turn(h)
  /\ pc[h] = "loop"
  /\ LoopCond(num_split_steps, step_num[h])
  /\ pos[h] < avail
  /\ step_num' = Bump(step_num, h, 1)
  /\ ngets' = Bump(ngets, h, 1)
  /\ pos' = Bump(pos, h, 1)
  /\ ncalls' = Bump(ncalls, h, 1)
  /\ IF EntersBarrier(variant, h)
     THEN /\ pc' = [pc EXCEPT ![h] = "sync"]
          /\ nsyncs' = Bump(nsyncs, h, 1)
          /\ UNCHANGED <<records, nstores>>
     ELSE /\ Accumulate(h)
          /\ UNCHANGED <<pc, nsyncs>>
  /\ UNCHANGED <<variant, only_aggregate, disk, num_split_steps,
                 avail, examples, split, success, out, nresets, nwrites,
                 metrics_list, num_steps_list, completed>>
  /\ UNCHANGED <<nscores, scored, scoring_metrics_list, can_load>>
  /\ UNCHANGED <<lvars, pvars, ovars>>

\* One iteration without a batch: step_num += 1, get_next raises
\* OutOfRangeError / StopIteration.
GetNextExhausted(h) ==
  /\ Turn(h)
  /\ pc[h] = "loop"
  /\ LoopCond(num_split_steps, step_num[h])
  /\ pos[h] >= avail
  /\ step_num' = Bump(step_num, h, 1)
  /\ ngets' = Bump(ngets, h, 1)
  /\ IF RaisesOnExhaustion(variant, num_split_steps)
     THEN /\ pc' = [pc EXCEPT ![h] = "raised"]
          /\ UNCHANGED <<nresets, pos>>
     ELSE /\ nresets' = Bump(nresets, h, 1)
          /\ pos' = [pos EXCEPT ![h] = 0]
          /\ pc' = [pc EXCEPT ![h] = "broke"]
  /\ UNCHANGED <<variant, only_aggregate, disk, num_split_steps,
                 avail, examples, split, success, out, ncalls, nwrites,
                 nstores, nsyncs, records, metrics_list, num_steps_list, completed>>
  /\ UNCHANGED <<nscores, scored, scoring_metrics_list, can_load>>
  /\ UNCHANGED <<lvars, pvars, ovars>>

\* py_utils.sync_global_devices(f'spmd_decode_step_fn{split}_{step_num}')
SyncGlobalDevices ==
  /\ \A h \in Hosts : pc[h] = "sync"
  /\ pc' = [h \in Hosts |-> "post"]
  /\ UNCHANGED <<variant, only_aggregate, disk, num_split_steps,
                 avail, examples, split, step_num, pos, success, out, ngets,
                 ncalls, nresets, nwrites, nstores, nsyncs, records,
                 metrics_list, num_steps_list, completed>>
  /\ UNCHANGED <<nscores, scored, scoring_metrics_list, can_load>>
  /\ UNCHANGED <<lvars, pvars, ovars>>

\* After the barrier: `if jax.process_index() != 0: continue`, host 0 stores
\* the weighted scalars and the processed decodes.
PostSync(h) ==
  /\ Turn(h)
  /\ pc[h] = "post"
  /\ Accumulate(h)
  /\ pc' = [pc EXCEPT ![h] = "loop"]
  /\ UNCHANGED <<variant, only_aggregate, disk, num_split_steps,
                 avail, examples, split, step_num, pos, success, out, ngets,
                 ncalls, nresets, nwrites, nsyncs, metrics_list,
                 num_steps_list, completed>>
  /\ UNCHANGED <<nscores, scored, scoring_metrics_list, can_load>>
  /\ UNCHANGED <<lvars, pvars, ovars>>

\* After the batch loop (its condition is false, or `break`): summarize,
\* append to the result lists, write the output file from host 0.
Finish(h) ==
  /\ Turn(h)
  /\ \/ pc[h] = "loop" /\ ~LoopCond(num_split_steps, step_num[h])
     \/ pc[h] = "broke"
  /\ IF ShouldProcessOutputs(split[h])
     THEN /\ nscores' = Bump(nscores, h, 1)
          /\ scored' = [scored EXCEPT
                          ![h] = [called |-> TRUE,
                                  records |-> records[h],
                                  dir |-> split[h],
                                  ret |-> ProcessOutputs(records[h],
                                                         split[h])]]
     ELSE UNCHANGED <<nscores, scored>>
  /\ metrics_list' = [metrics_list EXCEPT
                        ![h] = AppendEntry(@, MetricsDict(nstores[h]))]
  /\ scoring_metrics_list' =
       [scoring_metrics_list EXCEPT
          ![h] = AppendEntry(@, ScoringMetrics(ShouldProcessOutputs(split[h]),
                                               records[h], split[h]))]
  /\ num_steps_list' = [num_steps_list EXCEPT
                          ![h] = AppendEntry(@, StepsPerformed(step_num[h]))]
  /\ IF WritesOutput(variant, h, only_aggregate)
     THEN /\ disk' = [disk EXCEPT ![split[h]] = Written(records[h])]
          /\ nwrites' = Bump(nwrites, h, 1)
          /\ completed' = [completed EXCEPT ![split[h]] = "now"]
     ELSE UNCHANGED <<disk, nwrites, completed>>
  /\ split' = Bump(split, h, 1)
  /\ pc' = [pc EXCEPT ![h] = "check"]
  /\ UNCHANGED <<variant, only_aggregate, num_split_steps, avail,
                 examples, step_num, pos, success, out, ngets, ncalls,
                 nresets, nstores, nsyncs, records>>
  /\ UNCHANGED can_load
  /\ UNCHANGED <<lvars, pvars, ovars>>

\* The for loop is over: return the lists.
Return(h) ==
  /\ Turn(h)
  /\ pc[h] = "check"
  /\ split[h] > NumSplits
  /\ pc' = [pc EXCEPT ![h] = "done"]
  /\ UNCHANGED <<variant, only_aggregate, disk, num_split_steps,
                 avail, examples, split, step_num, pos, success, out, ngets,
                 ncalls, nresets, nwrites, nstores, nsyncs, records,
                 metrics_list, num_steps_list, completed>>
  /\ UNCHANGED <<nscores, scored, scoring_metrics_list, can_load>>
  /\ UNCHANGED <<lvars, pvars, ovars>>

\* The job is started again and runs the pass for the same checkpoint step
\* (after the pass returned or raised): the files written so far stay.
Restart ==
  /\ \A h \in Hosts : pc[h] \in {"done", "raised"}
  /\ pc' = [h \in Hosts |-> "check"]
  /\ split' = [h \in Hosts |-> 1]
  /\ step_num' = [h \in Hosts |-> 0]
  /\ pos' = [h \in Hosts |-> 0]
  /\ success' = [h \in Hosts |-> 0]
  /\ out' = [h \in Hosts |-> 0]
  /\ ngets' = [h \in Hosts |-> 0]
  /\ ncalls' = [h \in Hosts |-> 0]
  /\ nresets' = [h \in Hosts |-> 0]
  /\ nwrites' = [h \in Hosts |-> 0]
  /\ nstores' = [h \in Hosts |-> 0]
  /\ nsyncs' = [h \in Hosts |-> 0]
  /\ records' = [h \in Hosts |-> 0]
  /\ metrics_list' = [h \in Hosts |-> <<>>]
  /\ num_steps_list' = [h \in Hosts |-> <<>>]
  /\ scoring_metrics_list' = [h \in Hosts |-> <<>>]
  /\ can_load' = [h \in Hosts |-> <<>>]
  /\ nscores' = [h \in Hosts |-> 0]
  /\ scored' = [h \in Hosts |-> NotScored]
  /\ num_split_steps' = 0
  /\ avail' = 0
  /\ examples' = 0
  /\ completed' = [sp \in Splits |->
                     IF completed[sp] = "no" THEN "no" ELSE "before"]
  /\ UNCHANGED <<variant, only_aggregate, disk>>
  /\ UNCHANGED <<lvars, pvars, ovars>>

Next ==
  \/ \E h \in Hosts : EnterSkipCheck(h)
  \/ BroadcastOneToAll
  \/ \E h \in Hosts : Skip(h)
  \/ \E h \in Hosts : StartSplit(h)
  \/ \E h \in Hosts : GetNextBatch(h)
  \/ \E h \in Hosts : GetNextExhausted(h)
  \/ SyncGlobalDevices
  \/ \E h \in Hosts : PostSync(h)
  \/ \E h \in Hosts : Finish(h)
  \/ \E h \in Hosts : Return(h)
  \/ Restart

Spec == Init /\ [][Next]_vars

\* ------------------------------------------------- the continuous loop
\* task_p.train.save_interval_steps and task_p.train.num_train_steps
save_interval_steps == 1
num_train_steps == MaxStep

\* A last checkpoint test that also takes the step from which the next save
\* reaches num_train_steps.
IsLastCkptInclusive(last) == last + save_interval_steps >= num_train_steps

\* is_last_ckpt = last_checkpoint_step + save_interval_steps > num_train_steps
IsLastCkpt(last) == last + save_interval_steps > num_train_steps

\* A checkpointer whose _restore has no sync_global_devices.
NoRestoreBarrier(c) == FALSE

\* _SpmdEvalCheckpointer._restore calls py_utils.sync_global_devices after
\* restore_checkpoint; _PmapEvalCheckpointer._restore does not.
HasRestoreBarrier(c) == c = "spmd"

\* while new_checkpoint_step == last_checkpoint_step: sleep and ask again
KeepsWaiting(new, last) == new = last

\* What checkpoints.restore_checkpoint can do: give the state of the step,
\* give None, or raise.
RestoreOutcomes == {"held", "missing", "error"}

\* The steps whose state the restore of get_model_states gives: that of
\* restore_checkpoint_step, the first or the last step of the training.
RestoredSteps == {0, MaxStep}

\* A checkpointer that catches a restore error and restores again.
RetryAfterRestoreError(phase) == phase

\* Nothing catches an error of restore_checkpoint: it leaves _restore, the
\* checkpointer method and the caller.
AfterRestoreError(phase) == "raised"

\* A load that initializes a fresh state when there is nothing to restore.
LoadedStateOrFresh(c, s) == IF s = "missing" THEN "fresh" ELSE s

\* What load_checkpoint_for_step makes of the restored state.  Neither
\* checkpointer initializes a state here: the SPMD one asserts the restored
\* state; the pmap one hands the None to replicate_model_state, and the next
\* pass reads replicated_model_states.step before its first batch.  Either
\* way the error ends the loop before a pass has run on the step.
LoadedState(c, s) == IF s = "missing" THEN "error" ELSE s

\* A get_model_states that fails when there is nothing to restore.
InitialStateOrError(c, s) == IF s = "missing" THEN "error" ELSE s

\* get_model_states: `if partitioned_train_state is None` (`if model_states
\* is None`) initializes the state instead.
InitialState(c, s) == IF s = "missing" THEN "fresh" ELSE s

LoopInit ==
  /\ ckptr \in {"pmap", "spmd"}
  /\ continuous_decode \in BOOLEAN
  /\ latest \in OptSteps
  /\ lpc = [h \in Hosts |-> "init"]
  /\ last_checkpoint_step = [h \in Hosts |-> None]
  /\ new_checkpoint_step = [h \in Hosts |-> None]
  /\ partitioned_train_state = [h \in Hosts |-> "none"]
  /\ iter = [h \in Hosts |-> 0]
  /\ nrestores = [h \in Hosts |-> 0]
  /\ restore_error = [h \in Hosts |-> FALSE]
  /\ input_p \in BOOLEAN
  /\ gc_frozen = [h \in Hosts |-> FALSE]
  /\ live = [h \in Hosts |-> 0]
  /\ state_step = [h \in Hosts |-> None]
  /\ passes = [h \in Hosts |-> <<>>]
  /\ early_stop = [h \in Hosts |-> NotCalled]
  /\ variant = "eval"
  /\ only_aggregate = FALSE
  /\ disk = [sp \in Splits |-> Absent]
  /\ num_split_steps = 0
  /\ avail = 0
  /\ examples = 0
  /\ pc = [h \in Hosts |-> "check"]
  /\ split = [h \in Hosts |-> 1]
  /\ step_num = [h \in Hosts |-> 0]
  /\ pos = [h \in Hosts |-> 0]
  /\ success = [h \in Hosts |-> 0]
  /\ out = [h \in Hosts |-> 0]
  /\ ngets = [h \in Hosts |-> 0]
  /\ ncalls = [h \in Hosts |-> 0]
  /\ nresets = [h \in Hosts |-> 0]
  /\ nwrites = [h \in Hosts |-> 0]
  /\ nstores = [h \in Hosts |-> 0]
  /\ nsyncs = [h \in Hosts |-> 0]
  /\ records = [h \in Hosts |-> 0]
  /\ metrics_list = [h \in Hosts |-> <<>>]
  /\ num_steps_list = [h \in Hosts |-> <<>>]
  /\ completed = [sp \in Splits |-> "no"]
  /\ nscores = [h \in Hosts |-> 0]
  /\ scored = [h \in Hosts |-> NotScored]
  /\ scoring_metrics_list = [h \in Hosts |-> <<>>]
  /\ can_load = [h \in Hosts |-> <<>>]
  /\ MergeAtRest
  /\ TrackerAtRest
  /\ OthersAtRest

\* Host h waits in a collective, has left the loop function, or has nothing
\* to do until the checkpoint directory changes.
LoopBlocked(h) ==
  \/ lpc[h] \in {"init_barrier", "barrier", "exit", "failed", "raised"}
  \/ lpc[h] = "pass" /\ iter[h] >= MaxIters
  \/ lpc[h] = "poll" /\ KeepsWaiting(latest, last_checkpoint_step[h])

\* As in the split runners, the hosts other than host 0 run the same code on
\* local state and meet the others in the collectives alone: between two
\* collectives their steps are taken in index order.  Host 0 is never held
\* back.
LoopTurn(h) == \A g \in Hosts : (0 < g /\ g < h) => LoopBlocked(g)

\* A state has been restored or initialized on host h: its device memory is
\* live.
Materialized(h, s) == IF s \in {"held", "fresh"} THEN live[h] + 1 ELSE live[h]

\* What get_model_states does after _restore has returned s.
AfterInitialRestore(h, s) ==
  IF InitialState(ckptr, s) = "error"
  THEN /\ lpc' = [lpc EXCEPT ![h] = "failed"]
       /\ partitioned_train_state' =
            [partitioned_train_state EXCEPT ![h] = "none"]
       /\ UNCHANGED live
  ELSE /\ lpc' = [lpc EXCEPT ![h] = "start"]
       /\ partitioned_train_state' =
            [partitioned_train_state EXCEPT ![h] = InitialState(ckptr, s)]
       /\ live' = [live EXCEPT ![h] = Materialized(h, InitialState(ckptr, s))]

\* checkpointer.get_model_states before the loop: _restore of
\* restore_checkpoint_step gives the state of a step the directory holds,
\* gives None, or raises.  The pmap checkpointer goes on to the None check;
\* the SPMD checkpointer first enters sync_global_devices.  The hosts make
\* the call in index order.
GetModelStates(h) ==
  /\ \A g \in Hosts : g < h => lpc[g] # "init"
  /\ LoopTurn(h)
  /\ lpc[h] = "init"
  /\ \E res \in RestoreOutcomes, s \in RestoredSteps :
       /\ res = "held" => (latest # None /\ s <= latest)
       /\ IF res = "error"
          THEN /\ lpc' = [lpc EXCEPT ![h] = AfterRestoreError("init")]
               /\ restore_error' = [restore_error EXCEPT ![h] = TRUE]
               /\ UNCHANGED <<partitioned_train_state, live, state_step>>
          ELSE /\ UNCHANGED restore_error
               /\ state_step' = [state_step EXCEPT
                                   ![h] = IF res = "held" THEN s ELSE None]
               /\ IF HasRestoreBarrier(ckptr)
                  THEN /\ lpc' = [lpc EXCEPT ![h] = "init_barrier"]
                       /\ partitioned_train_state' =
                            [partitioned_train_state EXCEPT ![h] = res]
                       /\ live' = [live EXCEPT ![h] = Materialized(h, res)]
                  ELSE AfterInitialRestore(h, res)
  /\ UNCHANGED <<ckptr, continuous_decode, latest, last_checkpoint_step,
                 new_checkpoint_step, iter, nrestores, input_p, gc_frozen,
                 passes, early_stop>>
  /\ UNCHANGED <<rvars, pvars, ovars>>

\* py_utils.sync_global_devices in the _restore of get_model_states, and the
\* None check that follows it on every host.
InitialBarrier ==
  /\ \A h \in Hosts : lpc[h] = "init_barrier"
  /\ lpc' = [h \in Hosts |->
               IF InitialState(ckptr, partitioned_train_state[h]) = "error"
               THEN "failed" ELSE "start"]
  /\ partitioned_train_state' =
       [h \in Hosts |->
          IF InitialState(ckptr, partitioned_train_state[h]) = "error"
          THEN "none"
          ELSE InitialState(ckptr, partitioned_train_state[h])]
  /\ live' = [h \in Hosts |->
                IF partitioned_train_state[h] = "missing"
                THEN Materialized(h, InitialState(ckptr, "missing"))
                ELSE live[h]]
  /\ UNCHANGED <<ckptr, continuous_decode, latest, last_checkpoint_step,
                 new_checkpoint_step, iter, nrestores,
                 restore_error, input_p, gc_frozen, state_step, passes,
                 early_stop>>
  /\ UNCHANGED <<rvars, pvars, ovars>>

\* The trainer saves a checkpoint, or checkpoints are removed: the latest
\* step of the directory becomes another one, or none.  Only the answers
\* some host can still ask for matter, so the directory changes while a host
\* is at a query of the latest step.
StoreChanges ==
  /\ \E h \in Hosts : lpc[h] \in {"start", "poll"}
  /\ latest' \in OptSteps \ {latest}
  /\ UNCHANGED <<ckptr, continuous_decode, lpc, last_checkpoint_step,
                 new_checkpoint_step, partitioned_train_state, iter,
                 nrestores, restore_error, input_p, gc_frozen, live,
                 state_step, passes, early_stop>>
  /\ UNCHANGED <<rvars, pvars, ovars>>

\* last_checkpoint_step = checkpointer.retrieve_latest_checkpoint_step(),
\* then the summary writers, gc.collect() and gc.freeze() before `while True`.
RetrieveInitial(h) ==
  /\ LoopTurn(h)
  /\ lpc[h] = "start"
  /\ last_checkpoint_step' = [last_checkpoint_step EXCEPT ![h] = latest]
  /\ gc_frozen' = [gc_frozen EXCEPT ![h] = TRUE]
  /\ lpc' = [lpc EXCEPT ![h] = "pass"]
  /\ UNCHANGED <<ckptr, continuous_decode, latest, new_checkpoint_step,
                 partitioned_train_state, iter, nrestores,
                 restore_error, input_p, live, state_step, passes,
                 early_stop>>
  /\ UNCHANGED <<rvars, pvars, ovars>>

\* The passes of an iteration with eval inputs only, in the order of the
\* calls.
PassesEvalOnly(has_decode_inputs) == <<"eval">>

\* The passes of an iteration in the order of the calls: decode_once_fn
\* `if input_p`, then eval_one_step_fn.
PassesOf(has_decode_inputs) ==
  IF has_decode_inputs THEN <<"decode", "eval">> ELSE <<"eval">>

\* The body of `with io_utils.checkpoint_progress(...)`: the decode pass, if
\* there are decode inputs, then the eval pass, each called on
\* partitioned_train_state.
RunPasses(h) ==
  /\ LoopTurn(h)
  /\ lpc[h] = "pass"
  /\ iter[h] < MaxIters
  /\ iter' = [iter EXCEPT ![h] = @ + 1]
  /\ passes' = [passes EXCEPT
                  ![h] = [i \in DOMAIN PassesOf(input_p) |->
                            [fn |-> PassesOf(input_p)[i],
                             state |-> partitioned_train_state[h],
                             step |-> state_step[h]]]]
  /\ lpc' = [lpc EXCEPT ![h] = "decide"]
  /\ UNCHANGED <<ckptr, continuous_decode, latest, last_checkpoint_step,
                 new_checkpoint_step, partitioned_train_state, nrestores,
                 restore_error, input_p, gc_frozen, live, state_step,
                 early_stop>>
  /\ UNCHANGED <<rvars, pvars, ovars>>

\* A loop that goes on polling when continuous_decode is off.
NeverBreaksAtOnce(c) == FALSE

\* `if not continuous_decode: break`
BreaksAtOnce(c) == ~c

\* `if last_checkpoint_step is not None:` should_early_stop is called
Consults(last) == last # None

\* A loop that keeps the state while it waits for the next checkpoint.
KeepsState(n) == n

\* jax.tree_util.tree_map(lambda x: x.delete(), partitioned_train_state)
Released(n) == n - 1

\* A loop that unfreezes before it waits for the next checkpoint.
UnfrozenWhilePolling(stops) == FALSE

\* gc.unfreeze() is the statement after the while loop: a `break` reaches it,
\* the rest of an iteration does not.
FrozenAfterDecision(stops) == ~stops

\* `break`, gc.unfreeze(), and the function returns: its locals end with it
\* (they read None from then on), the state it held stays as it is.
BreakLoop(h) ==
  /\ lpc' = [lpc EXCEPT ![h] = "exit"]
  /\ gc_frozen' = [gc_frozen EXCEPT ![h] = FrozenAfterDecision(TRUE)]
  /\ last_checkpoint_step' = [last_checkpoint_step EXCEPT ![h] = None]
  /\ new_checkpoint_step' = [new_checkpoint_step EXCEPT ![h] = None]
  /\ partitioned_train_state' =
       [partitioned_train_state EXCEPT ![h] = "none"]
  /\ state_step' = [state_step EXCEPT ![h] = None]
  /\ UNCHANGED live

\* The end of an iteration that does not break: release
\* partitioned_train_state, `del` it, and call wait_for_new_step.
ReleaseAndPoll(h) ==
  /\ lpc' = [lpc EXCEPT ![h] = "poll"]
  /\ gc_frozen' = [gc_frozen EXCEPT ![h] = FrozenAfterDecision(FALSE)]
  /\ partitioned_train_state' =
       [partitioned_train_state EXCEPT ![h] = "released"]
  /\ live' = [live EXCEPT ![h] = Released(@)]
  /\ state_step' = [state_step EXCEPT ![h] = None]
  /\ UNCHANGED <<last_checkpoint_step, new_checkpoint_step>>

\* After the passes: break when not continuous; with a known step, call
\* should_early_stop (it returns whatever the early stopping function
\* answers) and break if it returned true or on the last checkpoint;
\* otherwise release partitioned_train_state and go polling.
StopDecision(h) ==
  /\ LoopTurn(h)
  /\ lpc[h] = "decide"
  /\ passes' = [passes EXCEPT ![h] = <<>>]
  /\ IF BreaksAtOnce(continuous_decode)
     THEN /\ BreakLoop(h)
          /\ UNCHANGED early_stop
     ELSE IF Consults(last_checkpoint_step[h])
     THEN \E ret \in BOOLEAN :
            /\ early_stop' =
                 [early_stop EXCEPT
                    ![h] = EarlyStopCall(
                             IsLastCkpt(last_checkpoint_step[h]), ret)]
            /\ IF ret \/ IsLastCkpt(last_checkpoint_step[h])
               THEN BreakLoop(h)
               ELSE ReleaseAndPoll(h)
     ELSE /\ ReleaseAndPoll(h)
          /\ UNCHANGED early_stop
  /\ UNCHANGED <<ckptr, continuous_decode, latest, iter, nrestores,
                 restore_error, input_p>>
  /\ UNCHANGED <<rvars, pvars, ovars>>

\* wait_for_new_step: the retrieval that ends the while loop.  The assert
\* fails when it answered None, and the error ends the loop function.  The
\* record of the should_early_stop call of the iteration is dropped here.
WaitForNewStep(h) ==
  /\ LoopTurn(h)
  /\ lpc[h] = "poll"
  /\ ~KeepsWaiting(latest, last_checkpoint_step[h])
  /\ new_checkpoint_step' = [new_checkpoint_step EXCEPT ![h] = latest]
  /\ lpc' = [lpc EXCEPT ![h] = IF latest = None THEN "failed" ELSE "restore"]
  /\ last_checkpoint_step' =
       [last_checkpoint_step EXCEPT ![h] = IF latest = None THEN None ELSE @]
  /\ partitioned_train_state' =
       [partitioned_train_state EXCEPT
          ![h] = IF latest = None THEN "none" ELSE @]
  /\ early_stop' = [early_stop EXCEPT ![h] = NotCalled]
  /\ UNCHANGED <<ckptr, continuous_decode, latest, iter, nrestores,
                 restore_error, input_p, gc_frozen, live, state_step, passes>>
  /\ UNCHANGED <<rvars, pvars, ovars>>

\* The rest of load_checkpoint_for_step once _restore has returned s on host
\* h, and `last_checkpoint_step = new_checkpoint_step` when the load returns:
\* where the host is then, and what its locals hold.  A load that fails on a
\* None ends the loop function.
LoadFails(s) == LoadedState(ckptr, s) = "error"

PcAfterLoad(s) == IF LoadFails(s) THEN "failed" ELSE "pass"

StepAfterLoad(h, s) == IF LoadFails(s) THEN None ELSE new_checkpoint_step[h]

StateAfterLoad(s) == IF LoadFails(s) THEN s ELSE LoadedState(ckptr, s)

\* load_checkpoint_for_step(new_checkpoint_step): restore_checkpoint yields
\* the state of the step or None, or raises.  The pmap checkpointer goes on to
\* the end of the load; the SPMD checkpointer enters sync_global_devices.
Restore(h) ==
  /\ LoopTurn(h)
  /\ lpc[h] = "restore"
  /\ \E res \in RestoreOutcomes :
       IF res = "error"
       THEN /\ lpc' = [lpc EXCEPT ![h] = AfterRestoreError("restore")]
            /\ last_checkpoint_step' =
                 [last_checkpoint_step EXCEPT ![h] = None]
            /\ new_checkpoint_step' =
                 [new_checkpoint_step EXCEPT ![h] = None]
            /\ partitioned_train_state' =
                 [partitioned_train_state EXCEPT ![h] = "none"]
            /\ restore_error' = [restore_error EXCEPT ![h] = TRUE]
            /\ UNCHANGED <<nrestores, live, state_step>>
       ELSE /\ nrestores' = [nrestores EXCEPT ![h] = @ + 1]
            /\ live' = [live EXCEPT ![h] = Materialized(h, res)]
            /\ state_step' =
                 [state_step EXCEPT
                    ![h] = IF res = "held"
                           THEN new_checkpoint_step[h] ELSE None]
            /\ UNCHANGED restore_error
            /\ IF HasRestoreBarrier(ckptr)
               THEN /\ lpc' = [lpc EXCEPT ![h] = "barrier"]
                    /\ partitioned_train_state' =
                         [partitioned_train_state EXCEPT ![h] = res]
                    /\ UNCHANGED <<last_checkpoint_step,
                                   new_checkpoint_step>>
               ELSE /\ lpc' = [lpc EXCEPT ![h] = PcAfterLoad(res)]
                    /\ partitioned_train_state' =
                         [partitioned_train_state EXCEPT
                            ![h] = StateAfterLoad(res)]
                    /\ last_checkpoint_step' =
                         [last_checkpoint_step EXCEPT
                            ![h] = StepAfterLoad(h, res)]
                    /\ new_checkpoint_step' =
                         [new_checkpoint_step EXCEPT
                            ![h] = StepAfterLoad(h, res)]
  /\ UNCHANGED <<ckptr, continuous_decode, latest, iter, input_p, gc_frozen,
                 passes, early_stop>>
  /\ UNCHANGED <<rvars, pvars, ovars>>

\* py_utils.sync_global_devices(f'checkpointer:restored:{dir}'), and the end
\* of the load that follows it on every host.
RestoreBarrier ==
  /\ \A h \in Hosts : lpc[h] = "barrier"
  /\ lpc' = [h \in Hosts |-> PcAfterLoad(partitioned_train_state[h])]
  /\ partitioned_train_state' =
       [h \in Hosts |-> StateAfterLoad(partitioned_train_state[h])]
  /\ last_checkpoint_step' =
       [h \in Hosts |-> StepAfterLoad(h, partitioned_train_state[h])]
  /\ new_checkpoint_step' =
       [h \in Hosts |-> StepAfterLoad(h, partitioned_train_state[h])]
  /\ UNCHANGED <<ckptr, continuous_decode, latest, iter, nrestores,
                 restore_error, input_p, gc_frozen, live, state_step, passes,
                 early_stop>>
  /\ UNCHANGED <<rvars, pvars, ovars>>

LoopNext ==
  \/ \E h \in Hosts : GetModelStates(h)
  \/ InitialBarrier
  \/ StoreChanges
  \/ \E h \in Hosts : RetrieveInitial(h)
  \/ \E h \in Hosts : RunPasses(h)
  \/ \E h \in Hosts : StopDecision(h)
  \/ \E h \in Hosts : WaitForNewStep(h)
  \/ \E h \in Hosts : Restore(h)
  \/ RestoreBarrier

LoopSpec == LoopInit /\ [][LoopNext]_vars

\* The statements of the loop function that host h runs by itself.
LoopStep(h) ==
  \/ GetModelStates(h)
  \/ RetrieveInitial(h)
  \/ RunPasses(h)
  \/ StopDecision(h)
  \/ WaitForNewStep(h)
  \/ Restore(h)

\* Every host is a running process: a statement it can execute is executed,
\* and a barrier every host has entered completes.  The passes return and
\* should_early_stop answers.  Nothing is assumed of the checkpoint
\* directory.
LoopFair ==
  /\ LoopSpec
  /\ \A h \in Hosts : WF_vars(LoopStep(h))
  /\ WF_vars(InitialBarrier)
  /\ WF_vars(RestoreBarrier)

\* -------------------------------------- specifications of single functions
\* No runner and no loop is running.
RunnerAtRest ==
  /\ variant = "eval"
  /\ only_aggregate = FALSE
  /\ disk = [sp \in Splits |-> Absent]
  /\ num_split_steps = 0
  /\ avail = 0
  /\ examples = 0
  /\ pc = [h \in Hosts |-> "check"]
  /\ split = [h \in Hosts |-> 1]
  /\ step_num = [h \in Hosts |-> 0]
  /\ pos = [h \in Hosts |-> 0]
  /\ success = [h \in Hosts |-> 0]
  /\ out = [h \in Hosts |-> 0]
  /\ ngets = [h \in Hosts |-> 0]
  /\ ncalls = [h \in Hosts |-> 0]
  /\ nresets = [h \in Hosts |-> 0]
  /\ nwrites = [h \in Hosts |-> 0]
  /\ nstores = [h \in Hosts |-> 0]
  /\ nsyncs = [h \in Hosts |-> 0]
  /\ records = [h \in Hosts |-> 0]
  /\ metrics_list = [h \in Hosts |-> <<>>]
  /\ num_steps_list = [h \in Hosts |-> <<>>]
  /\ completed = [sp \in Splits |-> "no"]
  /\ nscores = [h \in Hosts |-> 0]
  /\ scored = [h \in Hosts |-> NotScored]
  /\ scoring_metrics_list = [h \in Hosts |-> <<>>]
  /\ can_load = [h \in Hosts |-> <<>>]

LoopAtRest ==
  /\ ckptr = "pmap"
  /\ continuous_decode = FALSE
  /\ latest = None
  /\ lpc = [h \in Hosts |-> "start"]
  /\ last_checkpoint_step = [h \in Hosts |-> None]
  /\ new_checkpoint_step = [h \in Hosts |-> None]
  /\ partitioned_train_state = [h \in Hosts |-> "held"]
  /\ iter = [h \in Hosts |-> 0]
  /\ nrestores = [h \in Hosts |-> 0]
  /\ restore_error = [h \in Hosts |-> FALSE]
  /\ input_p = FALSE
  /\ gc_frozen = [h \in Hosts |-> FALSE]
  /\ live = [h \in Hosts |-> 1]
  /\ state_step = [h \in Hosts |-> None]
  /\ passes = [h \in Hosts |-> <<>>]
  /\ early_stop = [h \in Hosts |-> NotCalled]

\* ------------------------------------------------------ the metric merge
\* The algebra of _merge_clu_metrics on dicts a, b and c: merge(a, b),
\* merge(b, a), merge(b, c), merge(merge(a, b), c) and merge(a, merge(b, c)),
\* each call on dicts that hold the values the calls are named after.
MergeInit ==
  /\ margs \in [a : MetricMaps, b : MetricMaps, c : MetricMaps]
  /\ mres = NoCalls
  /\ TrackerAtRest
  /\ RunnerAtRest
  /\ LoopAtRest
  /\ OthersAtRest

Called(n) == n \in DOMAIN mres

\* The call named n has been made with outcome o.
Record(n, o) ==
  mres' = [m \in DOMAIN mres \cup {n} |-> IF m = n THEN o ELSE mres[m]]

\* _merge_clu_metrics(x, updated_metrics) where x is what the call named n
\* returned: the error of that call if it raised.
MergeInto(n, updated_metrics) ==
  IF mres[n].raised THEN mres[n]
  ELSE MergeCluMetrics(mres[n].ret, updated_metrics)

\* _merge_clu_metrics(metrics, x) where x is what the call named n returned.
MergeWith(metrics, n) ==
  IF mres[n].raised THEN [mres[n] EXCEPT !.metrics = metrics]
  ELSE MergeCluMetrics(metrics, mres[n].ret)

MergeAB ==
  /\ ~Called("ab")
  /\ Record("ab", MergeCluMetrics(margs.a, margs.b))
  /\ UNCHANGED <<margs, rvars, lvars, tvars, ovars>>

MergeBA ==
  /\ Called("ab") /\ ~Called("ba")
  /\ Record("ba", MergeCluMetrics(margs.b, margs.a))
  /\ UNCHANGED <<margs, rvars, lvars, tvars, ovars>>

MergeBC ==
  /\ Called("ba") /\ ~Called("bc")
  /\ Record("bc", MergeCluMetrics(margs.b, margs.c))
  /\ UNCHANGED <<margs, rvars, lvars, tvars, ovars>>

MergeAB_C ==
  /\ Called("bc") /\ ~Called("ab_c")
  /\ Record("ab_c", MergeInto("ab", margs.c))
  /\ UNCHANGED <<margs, rvars, lvars, tvars, ovars>>

MergeA_BC ==
  /\ Called("ab_c") /\ ~Called("a_bc")
  /\ Record("a_bc", MergeWith(margs.a, "bc"))
  /\ UNCHANGED <<margs, rvars, lvars, tvars, ovars>>

MergeNext ==
  \/ MergeAB
  \/ MergeBA
  \/ MergeBC
  \/ MergeAB_C
  \/ MergeA_BC

MergeSpec == MergeInit /\ [][MergeNext]_vars

\* ------------------------------------------ flattening the example outputs
\* The per-example outputs a step function returns: each example carries the
\* enumeration id the input pipeline gave it.
Examples == {[eid |-> 1, out |-> "x"], [eid |-> 2, out |-> "y"]}

\* per_example_output of one batch: its examples along axis 0.
Batches == UNION {[1 .. n -> Examples] : n \in 0 .. MaxBatchLen}

\* py_utils.get_enumeration_id(ex)
EnumerationId(ex) == ex.eid

\* An unstack that yields the examples of a batch last to first.
RECURSIVE TreeUnstackReversed(_)
TreeUnstackReversed(batch) ==
  IF batch = <<>> THEN <<>>
  ELSE Append(TreeUnstackReversed(Tail(batch)), Head(batch))

\* py_utils.tree_unstack(batch, 0): the examples of the batch, one by one,
\* in the order of axis 0.
TreeUnstack(batch) == batch

\* `for ex in tree_unstack(batch, 0): flat.append((get_enumeration_id(ex),
\* ex))`: the inner loop, on the examples still to come.
RECURSIVE AppendExamples(_, _)
AppendExamples(flat, exs) ==
  IF exs = <<>> THEN flat
  ELSE AppendExamples(Append(flat, <<EnumerationId(Head(exs)), Head(exs)>>),
                      Tail(exs))

\* `for batch in per_example_scores: ...`: the outer loop, on the batches
\* still to come.
RECURSIVE FlattenInto(_, _)
FlattenInto(flat, scores) ==
  IF scores = <<>> THEN flat
  ELSE FlattenInto(AppendExamples(flat, TreeUnstack(Head(scores))),
                   Tail(scores))

FlattenInit ==
  /\ per_example_scores = <<>>
  /\ flat_scoring_outputs = <<>>
  /\ fpc = "batches"
  /\ GateAtRest
  /\ MergeAtRest
  /\ TrackerAtRest
  /\ RunnerAtRest
  /\ LoopAtRest

\* One batch of the split: per_example_scores.append(per_example_output).
AppendScores ==
  /\ fpc = "batches"
  /\ Len(per_example_scores) < MaxScoredBatches
  /\ \E per_example_output \in Batches :
       per_example_scores' = Append(per_example_scores, per_example_output)
  /\ UNCHANGED <<flat_scoring_outputs, fpc>>
  /\ UNCHANGED <<rvars, lvars, pvars, gvars>>

\* After the batch loop: flat_scoring_outputs = [] and the two loops.
FlattenScores ==
  /\ fpc = "batches"
  /\ flat_scoring_outputs' = FlattenInto(<<>>, per_example_scores)
  /\ fpc' = "flat"
  /\ UNCHANGED per_example_scores
  /\ UNCHANGED <<rvars, lvars, pvars, gvars>>

\* The next split that is not skipped: per_example_scores = [].
NextSplitScores ==
  /\ fpc = "flat"
  /\ per_example_scores' = <<>>
  /\ flat_scoring_outputs' = <<>>
  /\ fpc' = "batches"
  /\ UNCHANGED <<rvars, lvars, pvars, gvars>>

FlattenNext ==
  \/ AppendScores
  \/ FlattenScores
  \/ NextSplitScores

FlattenSpec == FlattenInit /\ [][FlattenNext]_vars

\* ------------------------------------------------- the decode start gate
\* A gate that opens on the first checkpoint, whatever its step.
GateOpensOnAnyStep(cur, n) == cur # None

\* `if cur_step is not None and start_step <= cur_step: break`
GateOpens(cur, n) == cur # None /\ n <= cur

\* `if not start_step: return`: None and 0 are both false.
NoStartStep(n) == n = None \/ n = 0

GateInit ==
  /\ decode_continuous \in BOOLEAN
  /\ start_step \in OptSteps
  /\ store_latest \in OptSteps
  /\ cur_step = None
  /\ reports = <<>>
  /\ gate_pc = "entry"
  /\ FlattenAtRest
  /\ MergeAtRest
  /\ TrackerAtRest
  /\ RunnerAtRest
  /\ LoopAtRest

\* The trainer saves a checkpoint or checkpoints are removed while the
\* process has not yet left the gate.
GateStoreChanges ==
  /\ gate_pc \in {"entry", "poll"}
  /\ store_latest' \in OptSteps \ {store_latest}
  /\ UNCHANGED <<decode_continuous, start_step, cur_step, reports, gate_pc>>
  /\ UNCHANGED <<rvars, lvars, pvars, fvars>>

\* `if continuous_decode: _wait_until_step(checkpointer, ...)` up to the
\* `while True` of _wait_until_step.
EnterGate ==
  /\ gate_pc = "entry"
  /\ gate_pc' = IF decode_continuous /\ ~NoStartStep(start_step)
                THEN "poll" ELSE "load"
  /\ UNCHANGED <<decode_continuous, start_step, store_latest, cur_step,
                 reports>>
  /\ UNCHANGED <<rvars, lvars, pvars, fvars>>

\* One turn of the `while True`: retrieve the latest step, break when the
\* gate opens, time.sleep(300) otherwise.
PollGate ==
  /\ gate_pc = "poll"
  /\ Len(reports) < MaxPolls
  /\ cur_step' = store_latest
  /\ reports' = Append(reports, store_latest)
  /\ gate_pc' = IF GateOpens(store_latest, start_step) THEN "load" ELSE "poll"
  /\ UNCHANGED <<decode_continuous, start_step, store_latest>>
  /\ UNCHANGED <<rvars, lvars, pvars, fvars>>

\* checkpointer.get_model_states(...) of the decode entry.
LoadModelStates ==
  /\ gate_pc = "load"
  /\ gate_pc' = "loaded"
  /\ UNCHANGED <<decode_continuous, start_step, store_latest, cur_step,
                 reports>>
  /\ UNCHANGED <<rvars, lvars, pvars, fvars>>

\* _common_eval_or_decode_loop is entered and its first pass starts.
StartFirstPass ==
  /\ gate_pc = "loaded"
  /\ gate_pc' = "pass"
  /\ UNCHANGED <<decode_continuous, start_step, store_latest, cur_step,
                 reports>>
  /\ UNCHANGED <<rvars, lvars, pvars, fvars>>

GateNext ==
  \/ GateStoreChanges
  \/ EnterGate
  \/ PollGate
  \/ LoadModelStates
  \/ StartFirstPass

GateSpec == GateInit /\ [][GateNext]_vars

\* ----------------------------------------------------- the metric tracker
TrackerInit ==
  /\ decode_layout \in {"pmap", "spmd"}
  /\ nwarns = 0
  /\ min_or_max \in {"MIN", "MAX", "NONE"}
  /\ enable_checkpoint_saving \in BOOLEAN
  /\ status = None
  /\ offered = <<>>
  /\ updates = <<>>
  /\ idle_calls = 0
  /\ nsaves = 0
  /\ saved = <<>>
  /\ nfinds = 0
  /\ key_missing = FALSE
  /\ find_raised = FALSE
  /\ MergeAtRest
  /\ RunnerAtRest
  /\ LoopAtRest
  /\ OthersAtRest

\* A save made before tracker.update: it finds the tracker as the call found
\* it.
TrackedBeforeUpdate(old, new) == old

\* What the tracker holds when save_checkpoint is called: tracker.update(value
\* = m_value) comes first.
TrackedAtSave(old, new) == new

\* The calls made so far, on all hosts.
NumOffers == Len(offered) + idle_calls

\* The body of _maybe_update_tracked_metric(v, step, ...) on host h.  On host
\* 0: build the tracker over the directory, compare, and on improvement
\* tracker.update, which stores the value, and save_checkpoint if
\* enable_checkpoint_saving.  On another host `if jax.process_index() == 0`
\* is false and the function returns.
TrackerBody(h, v) ==
  IF h = 0
  THEN /\ offered' = Append(offered, v)
       /\ IF Improves(min_or_max, v,
                      TrackerMetricValue(status, InitialValue(min_or_max)))
          THEN /\ status' = v
               /\ updates' = Append(updates, v)
               /\ IF enable_checkpoint_saving
                  THEN /\ nsaves' = nsaves + 1
                       /\ saved' = Append(saved,
                                          [host |-> h,
                                           tracked |-> TrackedAtSave(status, v)])
                  ELSE UNCHANGED <<nsaves, saved>>
          ELSE UNCHANGED <<status, updates, nsaves, saved>>
       /\ UNCHANGED idle_calls
  ELSE /\ idle_calls' = idle_calls + 1
       /\ UNCHANGED <<status, offered, updates, nsaves, saved>>

\* _maybe_update_tracked_metric(v, ...) on host 0.  Its one caller has
\* checked that the mode is set.
MaybeUpdateTrackedMetric(v) ==
  /\ decode_layout = "pmap"
  /\ ~find_raised
  /\ min_or_max # "NONE"
  /\ NumOffers < MaxOffers
  /\ TrackerBody(0, v)
  /\ UNCHANGED <<decode_layout, nwarns, min_or_max,
                 enable_checkpoint_saving, nfinds, key_missing, find_raised>>
  /\ UNCHANGED <<rvars, lvars, mvars, ovars>>

\* _maybe_update_tracked_metric on a host other than host 0.
MaybeUpdateOnOtherHost(h) ==
  /\ decode_layout = "pmap"
  /\ ~find_raised
  /\ min_or_max # "NONE"
  /\ h # 0
  /\ NumOffers < MaxOffers
  /\ TrackerBody(h, 0)
  /\ UNCHANGED <<decode_layout, nwarns, min_or_max,
                 enable_checkpoint_saving, nfinds, key_missing, find_raised>>
  /\ UNCHANGED <<rvars, lvars, mvars, ovars>>

\* _find_and_maybe_update_tracked_metric on host h after a split of the pmap
\* decode pass: ValueError when the mode is not set (it ends the pass, so no
\* call follows it); else search the dicts for the tracked metric and call
\* _maybe_update_tracked_metric `if m_value`, log otherwise.
FindAndMaybeUpdateTrackedMetric(h, decode_metrics_list) ==
  /\ decode_layout = "pmap"
  /\ ~find_raised
  /\ nfinds < MaxFinds
  /\ nfinds' = nfinds + 1
  /\ key_missing' = (decode_metrics_list = NoDecodeMetrics)
  /\ IF min_or_max = "NONE"
     THEN /\ find_raised' = TRUE
          /\ UNCHANGED <<status, offered, updates, idle_calls,
                         nsaves, saved>>
     ELSE /\ UNCHANGED find_raised
          /\ IF IsTracked(FoundValue(decode_metrics_list))
             THEN /\ NumOffers < MaxOffers
                  /\ TrackerBody(h, FoundValue(decode_metrics_list))
             ELSE UNCHANGED <<status, offered, updates, idle_calls, nsaves,
                              saved>>
  /\ UNCHANGED <<decode_layout, nwarns, min_or_max,
                 enable_checkpoint_saving>>
  /\ UNCHANGED <<rvars, lvars, mvars, ovars>>

\* The end of a split in decode_once_spmd_model, with
\* task_p.track_decoder_metric set, on host 0 (every other host has left the
\* split at `if jax.process_index() != 0: continue`): logging.warn that the
\* tracking is not implemented, and nothing else, whatever the decode
\* metrics of the split are.
DecodeSpmdSplitEnd(decode_metrics_list) ==
  /\ decode_layout = "spmd"
  /\ nwarns < MaxFinds
  /\ nwarns' = nwarns + 1
  /\ UNCHANGED <<decode_layout, min_or_max, enable_checkpoint_saving, status,
                 offered, updates, idle_calls, nsaves, saved, nfinds,
                 key_missing, find_raised>>
  /\ UNCHANGED <<rvars, lvars, mvars, ovars>>

TrackerNext ==
  \/ \E v \in MetricValues : MaybeUpdateTrackedMetric(v)
  \/ \E h \in Hosts : MaybeUpdateOnOtherHost(h)
  \/ \E h \in Hosts, decode_metrics_list \in DecodeMetricsLists :
       FindAndMaybeUpdateTrackedMetric(h, decode_metrics_list)
  \/ \E decode_metrics_list \in DecodeMetricsLists :
       DecodeSpmdSplitEnd(decode_metrics_list)

TrackerSpec == TrackerInit /\ [][TrackerNext]_vars

\* ============================================================ properties
\* Host h has left the body of the for loop for split number split[h] - 1;
\* out[h], num_split_steps, avail and the per-split counters are still those
\* of that split (they change at the next broadcast only).
LeftSplit(h) == pc[h] \in {"check", "bcast", "done"} /\ split[h] > 1

\* Host h is inside the body of the for loop, past the skip decision.
InSplit(h) == pc[h] \in {"loop", "sync", "post", "broke", "raised"}

\* The file of the split loads with at least one record.
LoadsNonEmpty(file) == ~LoadRaises(file) /\ file.n >= 1

\* C1: when the existing output file of (split, step) loads with at least one
\* record, every host takes the skip branch for that split: it records a None
\* metrics entry and 0 steps, fetches no batch, calls no step function, resets
\* no iterator, enters no per-batch barrier and writes no file; and no host
\* is ever inside the batch loop of a split whose skip check succeeded.
C1_SkipRule ==
  /\ (\A h \in Hosts : pc[h] = "decide") =>
       \A h \in Hosts : CanLoad(out[h]) <=> LoadsNonEmpty(disk[split[h]])
  /\ \A h \in Hosts : InSplit(h) => ~CanLoad(out[h])
  /\ \A h \in Hosts :
       (LeftSplit(h) /\ CanLoad(out[h])) =>
         /\ ngets[h] = 0 /\ ncalls[h] = 0 /\ nresets[h] = 0
         /\ nsyncs[h] = 0 /\ nwrites[h] = 0
         /\ Len(metrics_list[h]) = split[h] - 1
         /\ Len(num_steps_list[h]) = split[h] - 1
         /\ metrics_list[h][split[h] - 1] = NoneMetrics
         /\ num_steps_list[h][split[h] - 1] = 0

\* A host other than host 0 has skipped a split whose budget and data would
\* have allowed a batch.
C1_Witness ==
  \E h \in Hosts :
    /\ h # 0 /\ LeftSplit(h) /\ CanLoad(out[h])
    /\ num_split_steps # 0 /\ avail >= 1
    /\ metrics_list[h][split[h] - 1].isNone

\* C2: once host 0 has written the outputs of a split in a run that completed
\* for this step, a later run for the same step skips the split on every host.
C2_RerunIsSkipped ==
  \A h \in Hosts :
    (pc[h] = "decide" /\ completed[split[h]] = "before") => CanLoad(out[h])

\* C3: in the eval runner with a budget N > 0 and K < N batches, a host that
\* is not skipping the split never leaves the split with a result; it raises,
\* and does so on get_next_padded call K + 1, after exactly K step calls and
\* without appending to its result lists.
C3_EvalBudgetedExhaustionRaises ==
  \A h \in Hosts :
    (/\ variant = "eval" /\ num_split_steps > 0 /\ avail < num_split_steps
     /\ ~CanLoad(out[h])) =>
      /\ pc[h] \in {"decide", "loop", "raised"}
      /\ pc[h] = "raised" =>
           /\ ngets[h] = avail + 1
           /\ ncalls[h] = avail
           /\ nresets[h] = 0
           /\ Len(metrics_list[h]) = split[h] - 1
           /\ Len(num_steps_list[h]) = split[h] - 1
      /\ pc[h] # "raised" => ngets[h] <= avail /\ ncalls[h] = ngets[h]

\* The eval runner has raised on its second get_next_padded call.
C3_Witness ==
  \E h \in Hosts :
    /\ variant = "eval" /\ pc[h] = "raised"
    /\ avail >= 1 /\ ngets[h] = avail + 1 /\ ncalls[h] = avail

\* C4: in the decode runners with a budget N > 0 and K < N batches, a host
\* that is not skipping the split never leaves the batch loop normally.
C4_DecodeBudgetedExhaustionFatal ==
  \A h \in Hosts :
    (/\ variant \in {"pmap", "spmd"}
     /\ num_split_steps > 0 /\ avail < num_split_steps
     /\ ~CanLoad(out[h])) =>
      pc[h] \in {"decide", "loop", "sync", "post", "raised"}

\* C5: with a negative budget, a host that is not skipping the split never
\* raises; it leaves the batch loop by an exhaustion that resets the iterator
\* exactly once (and not before), and appends a metrics entry that is not
\* None.
C5_UnbudgetedExhaustionResets ==
  \A h \in Hosts :
    (num_split_steps < 0 /\ ~CanLoad(out[h])) =>
      /\ pc[h] # "raised"
      /\ pc[h] \in {"decide", "loop", "sync", "post"} => nresets[h] = 0
      /\ (pc[h] = "broke" \/ LeftSplit(h)) =>
           /\ nresets[h] = 1
           /\ ngets[h] = avail + 1
           /\ ncalls[h] = avail
      /\ LeftSplit(h) =>
           /\ Len(metrics_list[h]) = split[h] - 1
           /\ ~metrics_list[h][split[h] - 1].isNone

\* A host has returned from a split with a negative budget after consuming a
\* batch and resetting its iterator.
C5_Witness ==
  \E h \in Hosts :
    /\ num_split_steps < 0 /\ ~CanLoad(out[h]) /\ LeftSplit(h)
    /\ avail >= 1 /\ nresets[h] = 1
    /\ ~metrics_list[h][split[h] - 1].isNone

\* C6: with budget -1 and K batches, the steps recorded for the split equal K.
C6_UnbudgetedStepsEqualBatches ==
  \A h \in Hosts :
    (num_split_steps = -1 /\ ~CanLoad(out[h]) /\ LeftSplit(h)) =>
      num_steps_list[h][split[h] - 1] = avail

\* C7: with a budget N >= 0 and at least N batches, a host that is not
\* skipping the split calls the step function exactly N times, consumes
\* exactly N batches, records N steps, never resets the iterator and never
\* raises.
C7_FixedBudget ==
  \A h \in Hosts :
    (/\ num_split_steps >= 0 /\ avail >= num_split_steps
     /\ ~CanLoad(out[h])) =>
      /\ pc[h] \notin {"raised", "broke"}
      /\ nresets[h] = 0
      /\ ncalls[h] <= num_split_steps
      /\ LeftSplit(h) =>
           /\ ncalls[h] = num_split_steps
           /\ ngets[h] = num_split_steps
           /\ pos[h] = num_split_steps
           /\ num_steps_list[h][split[h] - 1] = num_split_steps
           /\ ~metrics_list[h][split[h] - 1].isNone

\* A host has returned from a split with budget 1 that had a batch.
C7_Witness ==
  \E h \in Hosts :
    /\ num_split_steps >= 1 /\ avail >= num_split_steps
    /\ ~CanLoad(out[h]) /\ LeftSplit(h)
    /\ ncalls[h] = num_split_steps
    /\ num_steps_list[h][split[h] - 1] = num_split_steps

\* Host h is between the return of wait_for_new_step and the assignment of
\* its result to last_checkpoint_step.
HasNewStep(h) == lpc[h] \in {"restore", "barrier"}

\* Host h is inside the loop and holds a last_checkpoint_step.
InLoop(h) ==
  lpc[h] \notin {"init", "init_barrier", "start", "exit", "failed", "raised"}

\* The number of the pass host h is running or has last run, counting the
\* pass it is about to start; last_checkpoint_step[h] is the step of that pass.
PassIndex(h) == IF lpc[h] = "pass" THEN iter[h] + 1 ELSE iter[h]

\* C8: what wait_for_new_step returns is a step, and one strictly greater
\* than the last_checkpoint_step it was called with.
C8_NewStepStrictlyGreater ==
  \A h \in Hosts :
    HasNewStep(h) =>
      /\ new_checkpoint_step[h] # None
      /\ last_checkpoint_step[h] # None =>
           new_checkpoint_step[h] > last_checkpoint_step[h]

\* C9: two hosts that are at the same pass of the loop hold the same
\* checkpoint step for it.
C9_HostsEvaluateSameStep ==
  \A h, g \in Hosts :
    (InLoop(h) /\ InLoop(g) /\ PassIndex(h) = PassIndex(g)) =>
      last_checkpoint_step[h] = last_checkpoint_step[g]

\* C10 as stated, for both checkpointers: a host that is not waiting in the
\* post-restore barrier has completed no more restores than any other host,
\* so it starts no pass on a step some host has not finished restoring.
C10_BarrierBothVariants ==
  \A h, g \in Hosts :
    lpc[h] # "barrier" => nrestores[h] <= nrestores[g]

\* C10, for the SPMD checkpointer only: a host that is not waiting in the
\* post-restore barrier has completed no more restores than any other host,
\* so it starts no pass on a step some host has not finished restoring.
C10_BarrierSpmd ==
  \A h, g \in Hosts :
    (ckptr = "spmd" /\ lpc[h] # "barrier") => nrestores[h] <= nrestores[g]

\* With the SPMD checkpointer, a host is about to start a pass on a restored
\* step and every host has restored it.
C10_Witness ==
  /\ ckptr = "spmd"
  /\ \E h \in Hosts :
       /\ lpc[h] = "pass" /\ nrestores[h] >= 1
       /\ last_checkpoint_step[h] = new_checkpoint_step[h]
  /\ \A g \in Hosts : nrestores[g] >= 1

\* C11: get_model_states does not fail when restore returns no state: it
\* returns a freshly initialized state where restore gave None and the
\* restored state otherwise, with both checkpointers, and the first pass of the
\* loop runs on the state it returned.  No host fails before its first pass.
C11_InitialLoadInitializes ==
  [][\A h \in Hosts :
       /\ lpc'[h] = "failed" => iter'[h] >= 1
       /\ (lpc[h] = "init_barrier" /\ lpc'[h] # "init_barrier") =>
            /\ lpc'[h] = "start"
            /\ partitioned_train_state'[h] =
                 (IF partitioned_train_state[h] = "missing"
                  THEN "fresh" ELSE "held")
       /\ (lpc[h] = "init" /\ lpc'[h] \notin {"init", "init_barrier"}) =>
            \/ lpc'[h] = "raised" /\ restore_error'[h]
            \/ /\ lpc'[h] = "start"
               /\ partitioned_train_state'[h] \in {"held", "fresh"}
       /\ (lpc[h] = "pass" /\ iter[h] = 0 /\ lpc'[h] # "pass") =>
            /\ lpc'[h] = "decide" /\ iter'[h] = 1
            /\ partitioned_train_state[h] \in {"held", "fresh"}
            /\ partitioned_train_state'[h] = partitioned_train_state[h]
    ]_vars

\* With the SPMD checkpointer, a host has run its first pass on a state that
\* get_model_states initialized because there was nothing to restore.
C11_Witness ==
  \E h \in Hosts :
    /\ lpc[h] = "decide" /\ iter[h] = 1 /\ nrestores[h] = 0
    /\ partitioned_train_state[h] = "fresh"
    /\ ckptr = "spmd"

\* C12 as stated: when the restore inside the loop returned no state, the load
\* returns a freshly initialized state and the loop goes on to its next pass;
\* a load ends in a pass or in the error restore raised, never in a failure
\* of its own.
C12_LoadInitializes ==
  [][\A h \in Hosts :
       /\ (/\ lpc[h] = "barrier" /\ lpc'[h] # "barrier"
           /\ partitioned_train_state[h] = "missing") =>
            lpc'[h] = "pass" /\ partitioned_train_state'[h] = "fresh"
       /\ (lpc[h] = "restore" /\ lpc'[h] \notin {"restore", "barrier"}) =>
            \/ lpc'[h] = "raised"
            \/ /\ lpc'[h] = "pass"
               /\ partitioned_train_state'[h] \in {"held", "fresh"}
    ]_vars

\* C12, as the code has it: when the restore inside the loop returned no
\* state, load_checkpoint_for_step fails and the loop ends on that host, with
\* both checkpointers; otherwise the next pass runs on the restored state.
\* A freshly initialized state only ever comes from get_model_states.
C12_LoadFailsOnNone ==
  [][\A h \in Hosts :
       /\ (lpc[h] = "barrier" /\ lpc'[h] # "barrier") =>
            IF partitioned_train_state[h] = "missing"
            THEN lpc'[h] = "failed"
            ELSE lpc'[h] = "pass" /\ partitioned_train_state'[h] = "held"
       /\ (lpc[h] = "restore" /\ lpc'[h] \notin {"restore", "barrier"}) =>
            \/ lpc'[h] = "raised"
            \/ lpc'[h] = "failed" /\ partitioned_train_state'[h] = "missing"
            \/ lpc'[h] = "pass" /\ partitioned_train_state'[h] = "held"
       /\ partitioned_train_state'[h] = "fresh" => nrestores'[h] = 0
    ]_vars

\* A load inside the loop has failed on a restore that returned no state,
\* after a first pass.
C12_Witness ==
  \E h \in Hosts :
    /\ lpc[h] = "failed" /\ partitioned_train_state[h] = "missing"
    /\ nrestores[h] >= 1 /\ iter[h] >= 1

\* C13: an error raised by restore_checkpoint ends everything on the host it
\* was raised on: the host is out of the checkpointer and of the loop function
\* as soon as the error is raised, and from then on it restores nothing, runs
\* no pass and waits for no new step.
C13_RestoreErrorIsFatal ==
  [][\A h \in Hosts :
       /\ restore_error'[h] => lpc'[h] = "raised"
       /\ lpc[h] = "raised" =>
            /\ lpc'[h] = "raised"
            /\ iter'[h] = iter[h]
            /\ nrestores'[h] = nrestores[h]
            /\ new_checkpoint_step'[h] = new_checkpoint_step[h]
            /\ partitioned_train_state'[h] = partitioned_train_state[h]
    ]_vars

\* A restore inside the loop has raised on a host after its first pass, while
\* another host is still polling a directory that holds a checkpoint.
C13_Witness ==
  \E h \in Hosts :
    /\ lpc[h] = "raised" /\ restore_error[h] /\ iter[h] >= 1
    /\ \E g \in Hosts : g # h /\ lpc[g] = "poll"
    /\ latest # None

\* C14 as stated: whenever the key sets of a and b differ, an empty a
\* included, _merge_clu_metrics(a, b) raises the key-mismatch error and leaves
\* a as it was.
C14_KeyMismatchAlwaysRaises ==
  Called("ab") =>
    (DOMAIN margs.a # DOMAIN margs.b =>
       mres["ab"].raised /\ mres["ab"].metrics = margs.a)

\* C14, as the code has it: with a non-empty a whose key set differs from
\* that of b, _merge_clu_metrics(a, b) raises the key-mismatch error; whenever
\* it raises, a is left as it was; with an empty a it raises nothing, whatever
\* the keys of b, and returns b.
C14_KeyMismatchRaisesUnlessEmpty ==
  Called("ab") =>
    /\ (DOMAIN margs.a # {} /\ DOMAIN margs.a # DOMAIN margs.b) =>
         mres["ab"].raised
    /\ mres["ab"].raised => mres["ab"].metrics = margs.a
    /\ DOMAIN margs.a = {} =>
         /\ ~mres["ab"].raised
         /\ mres["ab"].ret = margs.b
         /\ mres["ab"].metrics = margs.a

\* The merge of two non-empty dicts that share a key but not all keys has
\* raised.
C14_Witness ==
  /\ Called("ab") /\ mres["ab"].raised
  /\ DOMAIN margs.a \cap DOMAIN margs.b # {}
  /\ DOMAIN margs.b \ DOMAIN margs.a # {}
  /\ \E k \in DOMAIN margs.a \cap DOMAIN margs.b :
       MergeValue(margs.a[k], margs.b[k]) # margs.a[k]

C16_SingleWriter ==
  [][/\ \A h \in Hosts \ {0} : nwrites[h] = 0 /\ nwrites'[h] = 0
     /\ disk' # disk => nwrites'[0] = nwrites[0] + 1
    ]_vars

\* A host other than host 0 has run a batch of a split and left the split,
\* and host 0 has written the output file of a split.
C16_Witness ==
  \E h \in Hosts \ {0} :
    /\ LeftSplit(h) /\ ~CanLoad(out[h]) /\ ncalls[h] >= 1
    /\ ~metrics_list[h][split[h] - 1].isNone
    /\ nwrites[0] >= 1 /\ nwrites[h] = 0
    /\ \E sp \in Splits : disk[sp] # Absent

\* C17: the hosts hold the same result of _can_load_written_outputs at all
\* times; it is what host 0 found on disk when it entered the check; a host
\* leaves the check through the broadcast only, which all hosts pass together,
\* once, and holds its result until its next check (or the next run); and the
\* hosts have skipped the same splits.
C17_SkipCheckAgreement ==
  [][/\ \A h, g \in Hosts : CanLoad(out'[h]) = CanLoad(out'[g])
     /\ \A h \in Hosts :
          /\ (pc[h] = "check" /\ pc'[h] \notin {"check", "done"}) =>
               /\ pc'[h] = "bcast"
               /\ h = 0 => success'[h] = LoadedCount(0, disk[split[h]])
          /\ (pc[h] = "bcast" /\ pc'[h] # "bcast") =>
               /\ \A g \in Hosts : pc[g] = "bcast" /\ pc'[g] = "decide"
               /\ out'[h] = success[0]
          /\ out'[h] # out[h] => pc[h] \in {"bcast", "done"}
     /\ \A h, g \in Hosts :
          \A i \in DOMAIN metrics_list'[h] \cap DOMAIN metrics_list'[g] :
            metrics_list'[h][i].isNone = metrics_list'[g][i].isNone
    ]_vars

\* Every host has skipped a split on outputs only host 0 has looked at, and
\* has run a batch of the other split.
C17_Witness ==
  /\ \A h \in Hosts :
       /\ LeftSplit(h) /\ CanLoad(out[h])
       /\ metrics_list[h][split[h] - 1].isNone
       /\ \E i \in DOMAIN metrics_list[h] : ~metrics_list[h][i].isNone
  /\ \E h \in Hosts : h # 0

\* C18: when the load of the split's output file raises on host 0, whether
\* the file is missing or unreadable, the check itself raises nothing: host 0
\* goes on to the broadcast with success 0, every host decides that the
\* outputs cannot be loaded, and every host runs the split again.
C18_ConservativeSkipCheck ==
  [][\A h \in Hosts :
       /\ pc[h] \in {"check", "bcast", "decide"} => pc'[h] # "raised"
       /\ (/\ h = 0 /\ pc[h] = "check" /\ pc'[h] \notin {"check", "done"}
           /\ LoadRaises(disk[split[h]])) =>
            pc'[h] = "bcast" /\ success'[h] = 0
       /\ (pc'[h] = "decide" /\ LoadRaises(disk'[split'[h]])) =>
            ~CanLoad(out'[h])
       /\ (/\ pc[h] = "decide" /\ pc'[h] # "decide"
           /\ LoadRaises(disk[split[h]])) =>
            /\ pc'[h] = "loop" /\ split'[h] = split[h]
            /\ Len(metrics_list'[h]) = Len(metrics_list[h])
    ]_vars

\* Every host is running the first split again over an unreadable output
\* file, after a check that reported false.
C18_Witness ==
  /\ \A h \in Hosts :
       pc[h] = "loop" /\ disk[split[h]] = Corrupt /\ ~CanLoad(out[h])
  /\ \E h \in Hosts : h # 0

\* Under the MIN policy, 5.0, 3.0, 4.0 and 2.0 have been offered in this order
\* to a tracker directory that was fresh before the first of them.
ScenarioOffered == min_or_max = "MIN" /\ offered = <<5, 3, 4, 2>>

\* C19 as stated: after the scenario the best value is 2.0 and tracker.update
\* has been called exactly twice, at 3.0 and at 2.0.
C19_TwoUpdates ==
  ScenarioOffered => status = 2 /\ updates = <<3, 2>>

\* C19, as the code has it: after the scenario the best value is 2.0 and
\* tracker.update has been called exactly three times, at 5.0, at 3.0 and at
\* 2.0: the first value improves on the initial value of a fresh tracker.
C19_ThreeUpdates ==
  ScenarioOffered => status = 2 /\ updates = <<5, 3, 2>>

\* The four values of the scenario have been offered on host 0, and the
\* tracker has been updated.
C19_Witness ==
  ScenarioOffered /\ idle_calls = 0 /\ Len(updates) > 0

\* C20: a call on host 0 calls tracker.update iff its value is strictly less
\* (MIN) or strictly greater (MAX) than the best value the tracker holds, a
\* fresh tracker holding a value no metric reaches; the update stores the
\* value; so the stored best never increases under MIN and never decreases
\* under MAX, and an equal value causes no update.  A call on another host
\* changes nothing.
C20_UpdateOnStrictImprovement ==
  [][/\ offered' # offered =>
          LET m == offered'[Len(offered')]
              updated == updates' # updates
          IN  /\ status = None => updated
              /\ (status # None /\ min_or_max = "MIN") =>
                   (updated <=> m < status)
              /\ (status # None /\ min_or_max = "MAX") =>
                   (updated <=> m > status)
              /\ m = status => ~updated
              /\ IF updated
                 THEN status' = m /\ updates' = Append(updates, m)
                 ELSE status' = status
     /\ status # None =>
          /\ status' # None
          /\ min_or_max = "MIN" => status' <= status
          /\ min_or_max = "MAX" => status' >= status
     /\ idle_calls' # idle_calls =>
          status' = status /\ updates' = updates /\ offered' = offered
    ]_vars

\* Under the MAX policy a value has been offered twice in a row and updated
\* the tracker the first time only, after a smaller value had updated it.
C20_Witness ==
  /\ min_or_max = "MAX"
  /\ Len(offered) = 3 /\ Len(updates) = 2
  /\ offered[2] = offered[3] /\ offered[1] < offered[2]
  /\ status = offered[3]

\* A call of _find_and_maybe_update_tracked_metric for a split that has the
\* tracked metric key in neither of its result dicts.
FindWithoutMetric == nfinds' # nfinds /\ key_missing'

\* The tracker directory and the best checkpoint are as they were.
TrackerUntouched ==
  /\ status' = status
  /\ updates' = updates
  /\ nsaves' = nsaves
  /\ offered' = offered
  /\ idle_calls' = idle_calls

\* C21 as stated: a call of _find_and_maybe_update_tracked_metric for a split
\* whose result dicts do not have the tracked metric key updates no tracker,
\* saves no checkpoint and raises nothing, whatever the configuration.
C21_MissingMetricNeverRaises ==
  [][FindWithoutMetric => (TrackerUntouched /\ ~find_raised')]_vars

\* C21, as the code has it: such a call updates no tracker and saves no
\* checkpoint; it raises nothing and the pass goes on iff
\* track_decoder_metric_min_or_max is set; when it is not set the call raises
\* ValueError before it looks for the metric.
C21_MissingMetricSkipsWhenModeSet ==
  [][FindWithoutMetric =>
       /\ TrackerUntouched
       /\ find_raised' <=> (min_or_max = "NONE")]_vars

\* The second call found the tracked metric in no dict and has returned; the
\* tracker holds the value of an earlier update, and the checkpoint saved
\* with it.
C21_Witness ==
  /\ nfinds = 2 /\ key_missing /\ ~find_raised
  /\ min_or_max = "MAX" /\ offered = <<1>> /\ updates = <<1>> /\ nsaves = 1
  /\ status = 1 /\ idle_calls = 0

\* The names of the passes host h has run in the current iteration, in the
\* order of the calls.
PassNames(h) == [i \in DOMAIN passes[h] |-> passes[h][i].fn]

\* C22: with continuous_decode off, a host runs one iteration and no more, of
\* at most one decode pass and exactly one eval pass; after it the loop
\* breaks: should_early_stop is never called, the state is not released (its
\* device memory stays live), wait_for_new_step is never called and no
\* checkpoint is loaded.
C22_OnceMode ==
  [][~continuous_decode =>
       \A h \in Hosts :
         /\ iter'[h] <= 1
         /\ lpc'[h] \notin {"poll", "restore", "barrier"}
         /\ ~early_stop'[h].called
         /\ nrestores'[h] = 0
         /\ (lpc[h] = "pass" /\ lpc'[h] # "pass") =>
              /\ lpc'[h] = "decide"
              /\ PassNames(h)' \in {<<"eval">>, <<"decode", "eval">>}
         /\ (lpc[h] = "decide" /\ lpc'[h] # "decide") =>
              /\ lpc'[h] = "exit"
              /\ iter'[h] = 1
              /\ live[h] = 1 /\ live'[h] = 1
    ]_vars

\* With continuous_decode off, a host has left the loop after one iteration
\* of a decode and an eval pass, its state still live, while a checkpoint it
\* has not evaluated is in the directory.
C22_Witness ==
  /\ ~continuous_decode /\ input_p /\ latest = MaxStep
  /\ lpc[0] = "exit" /\ iter[0] = 1 /\ live[0] = 1 /\ ~early_stop[0].called
  /\ \E h \in Hosts : lpc[h] = "decide" /\ PassNames(h) = <<"decode", "eval">>

\* C23: in continuous mode, after an iteration on a known step s,
\* should_early_stop is called with is_last_ckpt = (s + save_interval_steps >
\* num_train_steps); the loop breaks iff the call returned true or s is the
\* last checkpoint, and otherwise goes on to wait_for_new_step.
C23_StopDecision ==
  [][\A h \in Hosts :
       (/\ continuous_decode
        /\ lpc[h] = "decide" /\ lpc'[h] # "decide"
        /\ last_checkpoint_step[h] # None) =>
         /\ early_stop'[h].called
         /\ early_stop'[h].is_last_ckpt =
              (last_checkpoint_step[h] + save_interval_steps
                 > num_train_steps)
         /\ (lpc'[h] = "exit") <=>
              (\/ early_stop'[h].ret
               \/ last_checkpoint_step[h] + save_interval_steps
                    > num_train_steps)
         /\ lpc'[h] \in {"exit", "poll"}
    ]_vars

\* In continuous mode one host has left the loop because should_early_stop
\* returned true on a step that is not the last, and another goes on polling
\* after the call returned false.
C23_Witness ==
  /\ continuous_decode
  /\ \E h, g \in Hosts :
       /\ lpc[h] = "exit" /\ early_stop[h] = EarlyStopCall(FALSE, TRUE)
       /\ lpc[g] = "poll" /\ early_stop[g] = EarlyStopCall(FALSE, FALSE)

\* C24: a host never holds the device memory of more than one ModelState;
\* while it is in wait_for_new_step, and after the call has returned until
\* the load, it holds none: the state was released before the call, and the
\* new state is loaded after it.
C24_OneLiveModelState ==
  \A h \in Hosts :
    /\ live[h] <= 1
    /\ lpc[h] \in {"poll", "restore"} =>
         live[h] = 0 /\ partitioned_train_state[h] = "released"
    /\ lpc[h] \in {"pass", "decide"} =>
         live[h] = 1 /\ partitioned_train_state[h] \in {"held", "fresh"}

\* A host is about to start a pass on the state of a new checkpoint, the only
\* one it holds, having released the state of its first pass; another host is
\* waiting for a new step and holds none.
C24_Witness ==
  \E h, g \in Hosts :
    /\ lpc[h] = "pass" /\ iter[h] = 1 /\ nrestores[h] = 1 /\ live[h] = 1
    /\ partitioned_train_state[h] = "held"
    /\ lpc[g] = "poll" /\ live[g] = 0

\* C25: an iteration runs the decode pass iff there are decode inputs, and
\* runs it before the eval pass; every pass of the iteration is called on
\* the same state, the one the host holds when the iteration ends: no state
\* is released or loaded between the passes.
C25_PassOrder ==
  \A h \in Hosts :
    lpc[h] = "decide" =>
      /\ PassNames(h) = IF input_p THEN <<"decode", "eval">> ELSE <<"eval">>
      /\ \A i \in DOMAIN passes[h] :
           /\ passes[h][i].state = partitioned_train_state[h]
           /\ passes[h][i].step = state_step[h]
           /\ passes[h][i].state \in {"held", "fresh"}

\* With decode inputs, a host has run the decode pass and then the eval pass
\* on the state restored for a step.
C25_Witness ==
  \E h \in Hosts :
    /\ lpc[h] = "decide" /\ input_p
    /\ passes[h] = <<[fn |-> "decode", state |-> "held", step |-> MaxStep],
                     [fn |-> "eval", state |-> "held", step |-> MaxStep]>>

\* C26: in every iteration the step recorded as progress and used for the
\* stop decision, last_checkpoint_step, is the step of the restored state the
\* passes of the iteration ran on.
C26_RecordedStepIsEvaluatedStep ==
  \A h \in Hosts :
    lpc[h] = "decide" =>
      \A i \in DOMAIN passes[h] :
        passes[h][i].state = "held" =>
          passes[h][i].step = last_checkpoint_step[h]

\* Host h is inside `while True`.
LoopRunning(h) == lpc[h] \in {"pass", "decide", "poll", "restore", "barrier"}

\* C29 as stated: gc is frozen from before the first iteration, stays frozen
\* while the loop runs, and is unfrozen whenever the loop has been left.
C29_UnfrozenOnEveryExit ==
  \A h \in Hosts : gc_frozen[h] <=> LoopRunning(h)

\* C29, as the code has it: gc is not frozen before the loop, is frozen before
\* the first iteration and stays frozen while the loop runs, waiting for a new
\* step included; it is unfrozen when the loop ends by `break`, and stays
\* frozen when an error ends the loop (the assert of wait_for_new_step, an
\* error of the restore or of the load).
C29_UnfrozenOnBreak ==
  \A h \in Hosts :
    /\ lpc[h] \in {"init", "init_barrier", "start"} => ~gc_frozen[h]
    /\ LoopRunning(h) => gc_frozen[h]
    /\ lpc[h] = "exit" => ~gc_frozen[h]
    /\ lpc[h] \in {"failed", "raised"} => (gc_frozen[h] <=> iter[h] >= 1)

\* One host has left the loop by `break` and is unfrozen, another is frozen
\* and waiting for a new step, in continuous mode.
C29_Witness ==
  /\ continuous_decode
  /\ \E h, g \in Hosts :
       /\ lpc[h] = "exit" /\ ~gc_frozen[h] /\ iter[h] = 1
       /\ lpc[g] = "poll" /\ gc_frozen[g] /\ latest = last_checkpoint_step[g]

\* ------------------------------------------- result lists, writes, scoring
\* The last entry of a result list.
LastEntry(list) == list[Len(list)]

\* Host h leaves a split in this step: it appends the split's entries.
LeavesSplit(h) == Len(metrics_list'[h]) = Len(metrics_list[h]) + 1

\* C27: each of the three result lists of a host holds one entry for every
\* split the host has gone through, in the order of the input splits, and
\* one entry per input split when the runner has returned; entry i of the
\* metrics list is None iff _can_load_written_outputs returned true for split
\* i (the split was skipped), and is a metrics dict otherwise.
C27_PositionalAlignment ==
  \A h \in Hosts :
    /\ Len(metrics_list[h]) = split[h] - 1
    /\ Len(scoring_metrics_list[h]) = Len(metrics_list[h])
    /\ Len(num_steps_list[h]) = Len(metrics_list[h])
    /\ pc[h] = "done" => Len(metrics_list[h]) = NumSplits
    /\ \A i \in 1 .. Len(metrics_list[h]) :
         /\ metrics_list[h][i].isNone <=> can_load[h][i]
         /\ metrics_list[h][i] \in {NoneMetrics} \cup
                                    {MetricsDict(n) : n \in 0 .. MaxBatches}

\* A host other than host 0 has returned from a run in which the first split
\* had valid output and was skipped and the second was processed.
C27_Witness ==
  \E h \in Hosts \ {0} :
    /\ pc[h] = "done"
    /\ can_load[h][1] /\ ~can_load[h][2]
    /\ disk[1].state = "ok" /\ disk[1].n > 0
    /\ metrics_list[h][1] = NoneMetrics
    /\ ~metrics_list[h][2].isNone
    /\ num_steps_list[h][1] = 0

\* The splits host 0 has written in this run, and those it did not skip.
WrittenNow == {sp \in Splits : completed[sp] = "now"}
NotSkipped == {i \in 1 .. Len(can_load[0]) : ~can_load[0][i]}

\* What C28 asks of a step of the eval runner and of the state it starts in.
WritesMatch ==
  /\ LeavesSplit(0) =>
       IF CanLoad(out[0])
       THEN nwrites'[0] = 0 /\ disk' = disk
       ELSE /\ nwrites[0] = 0 /\ nwrites'[0] = 1
            /\ disk'[split[0]] = Written(records[0])
  /\ pc[0] = "done" => Cardinality(WrittenNow) = Cardinality(NotSkipped)

\* C28 as stated: in every call of the eval runner host 0 makes exactly one
\* output-file write for each split it does not skip and none for a skipped
\* split, and when the call has returned the number of splits written equals
\* the number of splits that had no valid output.
C28_WritesMatchNonSkipped ==
  [][variant = "eval" => WritesMatch]_vars

\* C28, corrected: the same, when pax_only_aggregate_summaries is not set.
C28_WritesMatchUnlessAggregateOnly ==
  [][(variant = "eval" /\ ~only_aggregate) => WritesMatch]_vars

\* Host 0 has returned from a call of the eval runner in which it skipped the
\* first split and processed and wrote the second.
C28_Witness ==
  /\ variant = "eval" /\ ~only_aggregate
  /\ pc[0] = "done"
  /\ can_load[0] = <<TRUE, FALSE>>
  /\ WrittenNow = {2}
  /\ completed[1] = "before"
  /\ nwrites[0] = 1

\* C30: a host that leaves a split it did not skip has called the scorer
\* exactly once, with its flattened records and the split's output directory,
\* iff the split is registered as needing scoring; what the scorer returned
\* is the split's scoring-metrics entry, and the entry is None when the split
\* is not registered.  The scorer is called at no other point.
C30_OptionalScoringPass ==
  [][\A h \in Hosts :
       /\ (LeavesSplit(h) /\ ~CanLoad(out[h])) =>
            IF split[h] \in RegisteredSplits
            THEN /\ nscores[h] = 0 /\ nscores'[h] = 1
                 /\ scored'[h].called
                 /\ scored'[h].records = records[h]
                 /\ scored'[h].dir = split[h]
                 /\ LastEntry(scoring_metrics_list'[h]) = scored'[h].ret
            ELSE /\ nscores[h] = 0 /\ nscores'[h] = 0
                 /\ ~scored'[h].called
                 /\ LastEntry(scoring_metrics_list'[h]) = NoneMetrics
       /\ nscores'[h] > nscores[h] => (LeavesSplit(h) /\ ~CanLoad(out[h]))
    ]_vars

\* A host has returned from a run of the eval runner in which it scored the
\* one record of the registered first split and processed the second split,
\* which is not registered, without scoring it.
C30_Witness ==
  \E h \in Hosts :
    /\ variant = "eval"
    /\ pc[h] = "done"
    /\ can_load[h] = <<FALSE, FALSE>>
    /\ scoring_metrics_list[h] = <<ProcessOutputs(1, 1), NoneMetrics>>
    /\ ~metrics_list[h][2].isNone
    /\ nscores[h] = 0

\* ------------------------------------------------------- the record order
\* The examples of the batches before batch b.
RECURSIVE ExamplesBefore(_)
ExamplesBefore(b) ==
  IF b <= 1 THEN 0
  ELSE ExamplesBefore(b - 1) + Len(per_example_scores[b - 1])

\* C31: once a split is flattened, the record list is as long as the batches
\* have examples in total, and example i of batch b is the record at position
\* (examples of the batches before b) + i, paired with its enumeration id:
\* the batches follow each other in the order they were processed and the
\* examples of a batch keep their order.
C31_RecordOrder ==
  fpc = "flat" =>
    /\ Len(flat_scoring_outputs) =
         ExamplesBefore(Len(per_example_scores) + 1)
    /\ \A b \in 1 .. Len(per_example_scores) :
         \A i \in 1 .. Len(per_example_scores[b]) :
           flat_scoring_outputs[ExamplesBefore(b) + i] =
             <<per_example_scores[b][i].eid, per_example_scores[b][i]>>

\* Two batches of two different examples each, in opposite orders, have been
\* flattened into four records.
C31_Witness ==
  /\ fpc = "flat"
  /\ Len(per_example_scores) = 2
  /\ Len(per_example_scores[1]) = 2
  /\ per_example_scores[1][1] # per_example_scores[1][2]
  /\ per_example_scores[2] = <<per_example_scores[1][2],
                                per_example_scores[1][1]>>
  /\ Len(flat_scoring_outputs) = 4

\* ------------------------------------------------ the best-checkpoint save
\* The best value before a call: what the tracker directory holds, or the
\* initial value of the mode.
BestBefore ==
  IF status # None THEN status
  ELSE IF min_or_max = "MAX" THEN -FloatMax ELSE FloatMax

\* C32: a step saves at most one checkpoint, and a step that saves one is a
\* call on host 0 with checkpoint saving enabled whose value is strictly
\* better than the best before the call and which has updated the tracker
\* with that value; the save finds the tracker already updated.  No step on
\* another host and no step without a tracker update saves.
C32_BestCheckpointSave ==
  [][nsaves' # nsaves =>
       /\ nsaves' = nsaves + 1
       /\ enable_checkpoint_saving
       /\ idle_calls' = idle_calls
       /\ Len(offered') = Len(offered) + 1
       /\ LET m_value == offered'[Len(offered')] IN
            /\ \/ min_or_max = "MIN" /\ m_value < BestBefore
               \/ min_or_max = "MAX" /\ m_value > BestBefore
            /\ updates' = Append(updates, m_value)
            /\ status' = m_value
            /\ saved' = Append(saved, [host |-> 0, tracked |-> m_value])
    ]_vars

\* Two checkpoints have been saved, each with its tracker update, and calls
\* that did not improve the value and a call on another host have saved
\* none.
C32_Witness ==
  /\ enable_checkpoint_saving
  /\ nsaves = 2 /\ Len(updates) = 2 /\ Len(saved) = 2
  /\ Len(offered) = 3
  /\ idle_calls = 1

\* --------------------------------------------- tracking a metric that is 0
\* A call of _find_and_maybe_update_tracked_metric, with the mode set, for a
\* split whose decode result has the tracked metric key.
FindWithMetric ==
  nfinds' # nfinds /\ ~key_missing' /\ min_or_max # "NONE"

\* The call has gone on to _maybe_update_tracked_metric: host 0 has compared
\* the value with the stored best, another host has returned from it.
ValueOffered ==
  Len(offered') + idle_calls' = Len(offered) + idle_calls + 1

\* C33: every call of _find_and_maybe_update_tracked_metric for a split whose
\* decode result has the tracked metric key, whatever the value of the metric,
\* hands the value to _maybe_update_tracked_metric to be compared with the
\* stored best, and does not treat the metric as missing.
C33_PresentMetricIsTracked ==
  [][FindWithMetric => ValueOffered]_vars

\* ------------------------------------- the decode metrics of the SPMD hosts
\* C34: when the SPMD decode runner has returned on two hosts, the two hold
\* the same decode metrics for every split: the weighted scalars a host
\* stored for a split it did not skip are those host 0 stored.
C34_SpmdHostsAgreeOnMetrics ==
  variant = "spmd" =>
    \A h \in Hosts :
      (pc[h] = "done" /\ pc[0] = "done") => metrics_list[h] = metrics_list[0]

\* ------------------------------------------------- the per-batch barrier
\* Host g has not reached the barrier host h waits in, and its next steps
\* take it there: it is in the same split, has not skipped it, and has the
\* batch still to come that h has run.
BoundForBarrier(g, h) ==
  /\ split[g] = split[h]
  /\ nsyncs[g] < nsyncs[h]
  /\ \/ pc[g] = "decide" /\ ~CanLoad(out[g])
     \/ /\ pc[g] \in {"loop", "post"}
        /\ LoopCond(num_split_steps, step_num[g])
        /\ pos[g] < avail

\* C35: in the SPMD decode runner, with the same batches on every host, a
\* host that waits in the per-batch barrier is never left there: every other
\* host waits in the same barrier or is on its way to it; and the hosts that
\* have gone through a split have entered the barrier equally often.
C35_NoHostLeftAtBarrier ==
  variant = "spmd" =>
    \A h, g \in Hosts :
      /\ pc[h] = "sync" =>
           \/ pc[g] = "sync" /\ split[g] = split[h] /\ nsyncs[g] = nsyncs[h]
           \/ BoundForBarrier(g, h)
      /\ (split[g] = split[h] /\ pc[g] \in {"check", "bcast", "done"}
                              /\ pc[h] \in {"check", "bcast", "done"}) =>
           nsyncs[g] = nsyncs[h]

\* Host 0 waits in the barrier of the first batch of a split while another
\* host has not yet fetched that batch.
C35_Witness ==
  \E g \in Hosts \ {0} :
    /\ variant = "spmd"
    /\ pc[0] = "sync" /\ nsyncs[0] = 1
    /\ pc[g] = "loop" /\ nsyncs[g] = 0
    /\ split[g] = split[0]

\* ------------------------------------------------ a split that has failed
\* C36: when the eval runner has raised on a host at split i, the run has
\* written no output file for split i and the files written for the splits
\* before i are in place; and a run that follows skips every split whose
\* file an earlier run wrote and processes every split no run has written.
C36_NoOutputOnFailedSplit ==
  variant = "eval" =>
    \A h \in Hosts :
      /\ pc[h] = "raised" =>
           /\ nwrites[h] = 0
           /\ completed[split[h]] # "now"
           /\ \A sp \in 1 .. (split[h] - 1) :
                completed[sp] # "no" => disk[sp].state = "ok"
      /\ \A i \in 1 .. Len(can_load[h]) :
           /\ completed[i] = "before" => can_load[h][i]
           /\ completed[i] = "no" => ~can_load[h][i]


\* The loop function of host h has ended, by a break or by an error.
Stopped(h) == lpc[h] \in {"exit", "failed", "raised"}

\* Host h has run the iterations the model follows and is about to run one
\* more.
AtIterBound(h) == lpc[h] = "pass" /\ iter[h] >= MaxIters

\* The checkpoint directory reports a final step as its latest one.
FinalReported == latest # None /\ IsLastCkpt(latest)

\* Host h is in wait_for_new_step after an iteration on a final step.
PollsAfterFinal(h) ==
  /\ lpc[h] = "poll"
  /\ last_checkpoint_step[h] # None
  /\ IsLastCkpt(last_checkpoint_step[h])

\* No restore has raised on any host.
NoRestoreRaised == \A h \in Hosts : ~restore_error[h]

\* C37: in continuous mode, when no restore raises and the directory from
\* some moment on always reports a final step as latest, the loop function of
\* every host eventually stops (within the iterations followed), and no host
\* calls wait_for_new_step after an iteration whose known step was final.
C37_LoopTerminates ==
  /\ (continuous_decode /\ []NoRestoreRaised /\ <>[]FinalReported)
       => <>((\A h \in Hosts : Stopped(h)) \/ (\E h \in Hosts : AtIterBound(h)))
  /\ [](\A h \in Hosts : ~PollsAfterFinal(h))


\* The directory has answered the process with a step at or after n.
ReportedAtLeast(n) ==
  \E i \in DOMAIN reports : reports[i] # None /\ reports[i] >= n

\* The model state is loaded, or a pass has started.
PastGate == gate_pc \in {"loaded", "pass"}

\* C38: in continuous decode with decode_start_after_n_steps = n > 0, the
\* model state is loaded and a pass starts only after the directory has
\* reported a latest step >= n; with n = 0 or unset, or with continuous mode
\* off, the directory is not asked and the process never waits.
C38_DecodeStartGate ==
  /\ (decode_continuous /\ start_step # None /\ start_step > 0 /\ PastGate)
       => ReportedAtLeast(start_step)
  /\ (~decode_continuous \/ start_step = None \/ start_step = 0)
       => (reports = <<>> /\ gate_pc # "poll")

C38_Witness ==
  /\ decode_continuous
  /\ start_step = MaxStep
  /\ gate_pc = "pass"
  /\ Len(reports) = 2
  /\ reports[1] = 1


\* --------------------------------------- tracking in the two decode runners
\* Host 0 ends a decode split whose metrics are decode_metrics_list, in the
\* runner of the job's layout.
SplitEndOnHostZero(decode_metrics_list) ==
  \/ FindAndMaybeUpdateTrackedMetric(0, decode_metrics_list)
  \/ DecodeSpmdSplitEnd(decode_metrics_list)

\* C39: with the tracking mode set, the end of a decode split whose metrics
\* hold the tracked metric (with a value `if m_value` lets through) hands
\* that value to the tracker comparison on host 0, in the SPMD decode runner
\* as in the pmap decode runner.
C39_TrackingInBothLayouts ==
  [][\A decode_metrics_list \in DecodeMetricsLists :
       (/\ min_or_max # "NONE"
        /\ IsTracked(FoundValue(decode_metrics_list))
        /\ SplitEndOnHostZero(decode_metrics_list))
         => offered' = Append(offered, FoundValue(decode_metrics_list))]_vars

====
